---- MODULE Spec2Model ----
(***************************************************************************)
(* A model of the codefuse agent runtime: the agent loop (AgentLoop.run),  *)
(* the tool executor (ToolExecutor.execute_tool_call), the context engine  *)
(* (ContextEngine), the bash tool's command policy, the workspace file      *)
(* tools and the LLM retry wrapper.                                         *)
(*                                                                         *)
(* run() is a generator: the model has one action per resumption of the    *)
(* generator, i.e. the code between two yields, and records the events it  *)
(* yields in the sequence "events".                                         *)
(***************************************************************************)
EXTENDS Integers, Sequences, FiniteSets, TLC

\* ------------------------------------------------------------------ bounds
\* The iteration cap the loop is constructed with (a configuration value).
max_iterations == 2
\* What a session receives: the user's queries (calls of run) and the tool
\* calls of the model's responses, together.
MaxInputs == 4
\* Content chunks the model of a session streams, over all its responses.
MaxChunks == 1
\* Distinct tool-call ids: the model numbers its calls 1, 2, ..., MaxIds, 1, ...
MaxIds == 2
\* Requests that go through the retry wrapper.
MaxRequests == 2
\* Commands a session runs through one ShellSession.
MaxCommands == 4
\* Metrics a session's collector records.
MaxMetrics == 4
\* Deltas of one streamed response.
MaxDeltas == 3

\* ------------------------------------------------------- values and tables
NoId == 0
Ids == 1..MaxIds

Sentinel == <<"Maximum iterations reached. The task may not be complete.">>
InvalidJsonShown == "<Invalid JSON format>"

\* The tools create_default_registry registers (those the model can name),
\* and a name that is not registered.
RegisteredTools == {"read_file", "write_file", "bash"}

\* Bash commands, by the policy lists they match (pattern.search(command)).
\* "ls" matches an allow pattern, "rm" a disallow pattern, "ls; rm" both,
\* "make" neither.
Commands == {"ls", "rm", "ls; rm", "make"}
MatchesAllowed(command) == command \in {"ls", "ls; rm"}
MatchesDisallowed(command) == command \in {"rm", "ls; rm"}

\* Argument texts (the JSON text of tool_call.function["arguments"]).
BadJson == <<"{bad">>
ListJson == <<"[1]">>
PathJson == <<"{\"path\": ", "/ws/a", "}">>
CommandJson(c) == <<"{\"command\": ", c, "}">>
CommandTexts == {CommandJson(c) : c \in Commands}

\* json.loads: a JSONDecodeError (ok = FALSE) or the parsed value.  kind is
\* "object" for a dict, "list" for any other JSON value.
JsonLoads(text) ==
    IF text = BadJson THEN [ok |-> FALSE, kind |-> "none", command |-> ""]
    ELSE IF text = ListJson THEN [ok |-> TRUE, kind |-> "list", command |-> ""]
    ELSE IF text \in CommandTexts
         THEN [ok |-> TRUE, kind |-> "object", command |-> text[2]]
    ELSE [ok |-> TRUE, kind |-> "object", command |-> ""]

\* The (tool name, argument text) pairs a model response can carry, by the
\* model of the session: one that reads (and names a tool that does not
\* exist), one that writes (with well-formed and with malformed arguments),
\* and models that run bash commands.
ReadCalls == {<<"nosuch", PathJson>>, <<"read_file", PathJson>>, <<"read_file", ListJson>>}
WriteCalls == {<<"write_file", PathJson>>, <<"write_file", BadJson>>}
FileModels == {ReadCalls, WriteCalls}
BashCall(c) == <<"bash", CommandJson(c)>>
BashModels ==
    {{BashCall("ls"), BashCall("make")}, {BashCall("rm"), BashCall("make")},
     {BashCall("ls; rm"), BashCall("ls")}}

\* ------------------------------------------------------------------- state
VARIABLES
    \* ContextEngine
    messages,            \* _messages: the ledger
    prompt_counter,      \* _prompt_counter (current_prompt_id is prompt_<counter>)
    current_iteration,   \* _current_iteration
    trajectory,          \* the lines of the session's trajectory.jsonl
    snapshot,            \* the messages of the session's llm_messages.json
    prompt_scope,        \* track_prompt's context: "none", "open" or "closed"
    \* AgentLoop / ToolExecutor configuration
    yolo_mode,           \* yolo_mode
    has_callback,        \* confirmation_callback is not None
    remote,              \* remote_executor is not None
    \* the generator run(): its position and locals
    pc,                  \* the yield the generator is suspended at, or "idle"
    stream,              \* run's stream argument (the same for every query)
    iteration,           \* local iteration
    final_response,      \* local final_response
    content_parts,       \* _handle_streaming_llm's content_parts
    llm_response,        \* local llm_response
    call_idx,            \* index of the tool call being executed
    confirmed,           \* execute_tool_call's local confirmed
    \* BashTool
    bash_requires_conf,  \* _current_requires_confirmation
    shell_input,         \* the commands written to the shell's stdin
    \* what the run has done so far (observations, not program state)
    events,              \* the events yielded by the current run
    llm_calls,           \* LLM requests issued by the current run
    runs,                \* calls of run() so far
    calls_log,           \* per dispatched tool call: what the executor did
    \* the model (the LLM) of this session
    model_calls,         \* the (tool, arguments) pairs it may return
    calls_made,          \* the tool calls it has returned so far
    chunks_made,         \* the content chunks it has streamed so far
    user_queries,        \* the contents the user of this session sends
    \* the file system and the file tools
    files,               \* per file path: whether it exists, and its content
    has_tracker,         \* the tools were registered with a ReadTracker
    read_files,          \* ReadTracker._read_files
    accessed,            \* the resolved paths the tools have read or written
    reads_ok,            \* the resolved paths a read_file call has returned
    fs_result,           \* the last file tool call and its result
    \* retry_on_failure's wrapper
    retry_pc,            \* "idle", "calling", "returned" or "raised"
    attempt,             \* the loop variable attempt
    invocations,         \* the errors of this request's invocations of func
    sleeps,              \* the waits of this request's calls of time.sleep,
                         \* in tenths of a second
    raised,              \* the exceptions this request's invocations raised
    requests,            \* requests wrapped so far
    \* OpenAICompatibleLLM.generate and its caller
    gen_stream,          \* generate's stream argument
    creates,             \* the outcomes of this request's calls of create()
    reaches_loop,        \* what the agent loop's try block gets from the request
    \* ShellSession and the bash process
    shell,               \* the process, its pipes, and ShellSession._cwd
    bash_calls,          \* the execute_command calls so far, with their results
    \* MetricsCollector and the tool executor's records
    collector,           \* _current_prompt, and the metrics of the session
    tool_records,        \* per executed tool call: its result and success flags
    \* _handle_stream and its consumer _handle_streaming_llm
    wire,                \* the deltas received, and what was built from them
    \* AnthropicLLM
    anthropic_request    \* the last ledger converted, and its conversion

loopvars == <<messages, prompt_counter, current_iteration, trajectory, snapshot,
              prompt_scope, yolo_mode, has_callback,
              remote, pc, stream, iteration, final_response, content_parts,
              llm_response, call_idx, confirmed, bash_requires_conf, shell_input,
              events, llm_calls, runs, calls_log, model_calls, calls_made,
              chunks_made, user_queries>>

fsvars == <<files, has_tracker, read_files, accessed, reads_ok, fs_result>>

retryvars == <<retry_pc, attempt, invocations, sleeps, raised, requests>>

adaptervars == <<gen_stream, creates, reaches_loop>>

shellvars == <<shell, bash_calls>>

\* The parts of the program that have a specification of their own.
corevars == <<loopvars, fsvars, retryvars, adaptervars>>
metricvars == <<collector, tool_records>>
sidevars == <<shellvars, metricvars, wire, anthropic_request>>

vars == <<corevars, sidevars>>

\* What the agent loop's steps leave alone.
outside_loop == <<fsvars, retryvars, adaptervars, sidevars>>
\* What the file tools leave alone.
outside_fs == <<loopvars, retryvars, adaptervars, sidevars>>
\* What the retry wrapper leaves alone.
outside_retry == <<loopvars, fsvars, sidevars>>

\* The state as one record, so that the steps of a handler compose.
Cur ==
    [messages |-> messages, prompt_counter |-> prompt_counter,
     current_iteration |-> current_iteration, trajectory |-> trajectory,
     snapshot |-> snapshot, prompt_scope |-> prompt_scope, pc |-> pc, iteration |-> iteration,
     final_response |-> final_response, content_parts |-> content_parts,
     llm_response |-> llm_response, call_idx |-> call_idx, confirmed |-> confirmed,
     bash_requires_conf |-> bash_requires_conf, shell_input |-> shell_input,
     events |-> events, llm_calls |-> llm_calls, calls_log |-> calls_log]

\* The new state is computed once and bound to v; the operators of the loop
\* bind their state argument in the same way, by a choice from a singleton.
Assign(t) ==
    \E v \in {t} :
        /\ messages' = v.messages
        /\ prompt_counter' = v.prompt_counter
        /\ current_iteration' = v.current_iteration
        /\ trajectory' = v.trajectory
        /\ snapshot' = v.snapshot
        /\ prompt_scope' = v.prompt_scope
        /\ pc' = v.pc
        /\ iteration' = v.iteration
        /\ final_response' = v.final_response
        /\ content_parts' = v.content_parts
        /\ llm_response' = v.llm_response
        /\ call_idx' = v.call_idx
        /\ confirmed' = v.confirmed
        /\ bash_requires_conf' = v.bash_requires_conf
        /\ shell_input' = v.shell_input
        /\ events' = v.events
        /\ llm_calls' = v.llm_calls
        /\ calls_log' = v.calls_log

\* ----------------------------------------------------------------- messages
Msg(role, content, tool_calls, tool_call_id) ==
    [role |-> role, content |-> content, tool_calls |-> tool_calls,
     tool_call_id |-> tool_call_id]

NoResponse == [content |-> <<>>, tool_calls |-> <<>>]

\* An event of the stream: its type and its data.  iteration is the loop's
\* iteration when the event is yielded; text is the content of llm_done, the
\* delta of llm_chunk and the final_response of agent_done; calls are the ids
\* of llm_done's tool_calls.
Event(type, it, id, conf, text, calls) ==
    [type |-> type, iteration |-> it, tool_call_id |-> id, confirmed |-> conf,
     text |-> text, calls |-> calls]

Emit(s, e) == [s EXCEPT !.events = Append(@, e), !.pc = e.type]

CallIds(tool_calls) == [k \in 1..Len(tool_calls) |-> tool_calls[k].id]

\* ------------------------------------------------------------ ContextEngine
\* f"prompt_{n:03d}": the digits of n, padded to three.
RECURSIVE Digits(_)
Digits(n) == IF n < 10 THEN <<n>> ELSE Append(Digits(n \div 10), n % 10)

prompt_id(n) ==
    LET d == Digits(n)
    IN <<"prompt_">> \o [k \in 1..(3 - Len(d)) |-> 0] \o d

\* TrajectoryWriter.write: a line appended to the file.  An event without
\* an iteration key has NoIteration here.
NoIteration == -1
write_event(s, event_type, it) ==
    CHOOSE written \in
        {[v EXCEPT !.trajectory =
            Append(@, [event_type |-> event_type, prompt_id |-> prompt_id(v.prompt_counter),
                       iteration |-> i])] : v \in {s}, i \in {it}} : TRUE

add_user_message(s, content) ==
    LET t == [s EXCEPT !.prompt_counter = @ + 1,
                       !.current_iteration = 0,
                       !.messages = Append(@, Msg("user", content, <<>>, NoId))]
    IN write_event(t, "user_message", NoIteration)

add_assistant_message(s, response, it) ==
    LET t == [s EXCEPT !.current_iteration = it,
                       !.messages = Append(@, Msg("assistant", response.content,
                                                  response.tool_calls, NoId))]
    IN write_event(t, "assistant_response", it)

add_tool_result(s, tool_call_id, result) ==
    LET t == [s EXCEPT !.messages = Append(@, Msg("tool", result, <<>>, tool_call_id))]
    IN write_event(t, "tool_result", s.current_iteration)

\* _format_tool_args: the pretty-printed arguments, or the placeholder.
format_tool_args(tc) ==
    IF JsonLoads(tc.arguments).ok THEN "<args>" ELSE InvalidJsonShown

RECURSIVE tool_calls_text(_, _)
tool_calls_text(tool_calls, tool_call_id) ==
    IF tool_calls = <<>> THEN <<>>
    ELSE LET tc == Head(tool_calls) IN
         <<tc.name, ToString(tc.id),
           IF tc.id = tool_call_id THEN InvalidJsonShown ELSE format_tool_args(tc)>>
         \o tool_calls_text(Tail(tool_calls), tool_call_id)

\* The indexes of the assistant messages that carry a tool call with this id.
Carriers(msgs, tool_call_id) ==
    {i \in 1..Len(msgs) :
        /\ msgs[i].role = "assistant"
        /\ \E k \in 1..Len(msgs[i].tool_calls) : msgs[i].tool_calls[k].id = tool_call_id}

Max(S) == CHOOSE x \in S : \A y \in S : y <= x

sanitize_invalid_tool_call(s, tool_call_id, tool_name) ==
    LET found == Carriers(s.messages, tool_call_id) IN
    IF found = {} THEN s
    ELSE LET target_idx == Max(found)
             assistant_msg == s.messages[target_idx]
             rewritten ==
                 Msg("assistant",
                     assistant_msg.content \o <<"Tool calls attempted:">>
                         \o tool_calls_text(assistant_msg.tool_calls, tool_call_id),
                     <<>>, NoId)
             t == write_event([s EXCEPT !.messages[target_idx] = rewritten],
                              "tool_call_sanitized", NoIteration)
         IN add_user_message(t, <<"retry with valid JSON", tool_name, ToString(tool_call_id)>>)

\* ------------------------------------------------- snapshot and resume
\* A user's content is a string, or a list of ContentBlock objects; a block
\* serialized for JSON is a dict.
TextBlock == "ContentBlock(type=text)"
ImageBlock == "ContentBlock(type=image_url)"
TextDict == "{type: text}"
ImageDict == "{type: image_url}"
TextQuery == <<"query">>
BlockQuery == <<TextBlock, ImageBlock>>

IsBlockList(content) ==
    /\ content # <<>>
    /\ \A k \in 1..Len(content) :
          content[k] \in {TextBlock, ImageBlock, TextDict, ImageDict}

\* {k: v for k, v in block.__dict__.items() if v is not None}: a dict has
\* no __dict__.
block_to_dict(block) ==
    IF block = TextBlock THEN TextDict
    ELSE IF block = ImageBlock THEN ImageDict
    ELSE "AttributeError"

\* _convert_messages, one message: the OpenAI dict, with the keys it has.
convert_message(m) ==
    [role |-> m.role,
     content |-> IF IsBlockList(m.content)
                 THEN [k \in 1..Len(m.content) |-> block_to_dict(m.content[k])]
                 ELSE m.content,
     tool_calls |-> m.tool_calls,
     tool_call_id |-> m.tool_call_id,
     keys |-> {"role", "content"}
              \cup (IF m.tool_calls # <<>> THEN {"tool_calls"} ELSE {})
              \cup (IF m.tool_call_id # NoId THEN {"tool_call_id"} ELSE {})]

\* _convert_messages: the list of dicts, or the AttributeError it raises.
convert_messages(msgs) ==
    LET data == [i \in 1..Len(msgs) |-> convert_message(msgs[i])]
    IN [ok |-> \A i \in 1..Len(data) :
                   \A k \in 1..Len(data[i].content) :
                       data[i].content[k] # "AttributeError",
        data |-> data]

\* write_llm_messages: the converted ledger replaces the file's content; a
\* conversion that raises is logged and the file is left as it was.
write_llm_messages(s) ==
    CHOOSE written \in
        {IF convert_messages(v.messages).ok
         THEN [v EXCEPT !.snapshot = convert_messages(v.messages).data]
         ELSE v : v \in {s}} : TRUE

\* A content block's dict with a cache_control entry.
with_cache_control(block) ==
    IF block = TextDict THEN "{type: text, cache_control: {type: ephemeral}}"
    ELSE "{type: image_url, cache_control: {type: ephemeral}}"

\* A conversion that marks the last message whatever its role (a variant
\* the cache marker's condition excludes).
anthropic_convert_messages_any_role(msgs) ==
    LET openai_messages == convert_messages(msgs).data
    IN IF msgs = <<>> THEN openai_messages
       ELSE [openai_messages EXCEPT ![Len(msgs)].keys = @ \cup {"cache_control"}]

\* AnthropicLLM._convert_messages: the parent's conversion, and the
\* cache_control marker on the last message when it is a tool message: a
\* key of the dict when the content is a string, an entry of the last block
\* when it is a list.
anthropic_convert_messages(msgs) ==
    LET openai_messages == convert_messages(msgs).data
        n == Len(msgs)
    IN IF msgs = <<>> THEN openai_messages
       ELSE IF msgs[n].role # "tool" THEN openai_messages
       ELSE IF ~IsBlockList(msgs[n].content)
       THEN [openai_messages EXCEPT ![n].keys = @ \cup {"cache_control"}]
       ELSE [openai_messages EXCEPT
                ![n].content[Len(openai_messages[n].content)] = with_cache_control(@)]

\* A loader that keeps the snapshot's system message (a variant the single
\* system message excludes).
load_conversation_history_keep_system(data) ==
    [i \in 1..Len(data) |->
        Msg(data[i].role, data[i].content,
            IF "tool_calls" \in data[i].keys THEN data[i].tool_calls ELSE <<>>,
            IF "tool_call_id" \in data[i].keys THEN data[i].tool_call_id ELSE NoId)]

\* load_conversation_history: the messages of the snapshot but the system
\* messages, each rebuilt from its dict.
load_conversation_history(data) ==
    LET kept == SelectSeq(data, LAMBDA d : d.role # "system")
    IN [i \in 1..Len(kept) |->
           Msg(kept[i].role, kept[i].content,
               IF "tool_calls" \in kept[i].keys THEN kept[i].tool_calls ELSE <<>>,
               IF "tool_call_id" \in kept[i].keys THEN kept[i].tool_call_id ELSE NoId)]

SystemMessage == Msg("system", <<"system prompt">>, <<>>, NoId)

\* ContextEngine.__init__ with a conversation_history.
new_context_engine(s, conversation_history) ==
    [s EXCEPT !.prompt_counter = 0,
              !.current_iteration = 0,
              !.messages = <<SystemMessage>> \o conversation_history]

\* ----------------------------------------------------------------- BashTool
\* _check_command_filter: <<status, requires_confirmation>>.
\* A filter that tries the allow list first (a variant the policy excludes).
check_command_filter_allow_first(command) ==
    IF MatchesAllowed(command) THEN <<"allowed", FALSE>>
    ELSE IF MatchesDisallowed(command) THEN <<"disallowed", FALSE>>
    ELSE <<"neutral", TRUE>>

check_command_filter(command) ==
    IF MatchesDisallowed(command) THEN <<"disallowed", FALSE>>
    ELSE IF MatchesAllowed(command) THEN <<"allowed", FALSE>>
    ELSE <<"neutral", TRUE>>

BashOutcomes == {"ok", "timeout"}

\* BashTool.execute(command): the new tool state and the result content.
\* outcome is what the shell does with a command that is written to it.
bash_execute(s, command, outcome) ==
    LET filter == check_command_filter(command)
        t == [s EXCEPT !.bash_requires_conf = filter[2]]
    IN IF filter[1] = "disallowed"
       THEN [state |-> t, content |-> <<"Error: Command rejected by policy">>]
       ELSE [state |-> [t EXCEPT !.shell_input = @ \cup {command}],
             content |-> IF outcome = "ok" THEN <<"Command executed successfully">>
                         ELSE <<"Error: Command timed out">>]

\* BaseTool.requires_confirmation / BashTool.requires_confirmation, read when
\* the call is dispatched.
requires_confirmation(s, tool_name) ==
    CASE tool_name = "write_file" -> TRUE
      [] tool_name = "bash" -> s.bash_requires_conf
      [] OTHER -> FALSE

\* ------------------------------------------------------------- ShellSession
\* The commands: what bash does with each of them.  "sleep" runs longer
\* than the timeout, "probe" is echo $FOO; pwd, and "pwd" is the command
\* _update_cwd sends.
ShellCommands == {"export", "cd", "probe", "sleep", "exit", "printf", "false"}

\* What the shell prints for a command, end marker included: the lines
\* before the marker, and whether an EXIT_CODE= line is among them.
Printed(output, has_code) == [output |-> output, has_code |-> has_code, code |-> 0]

\* The lines the reader thread makes of a command's output followed by the
\* output of echo "EXIT_CODE=$?": when the command's output does not end
\* with a newline, its last line and the EXIT_CODE= text are one line, which
\* does not start with EXIT_CODE=.
Unterminated(line, status) ==
    IF line = "foo" /\ status = 1 THEN "fooEXIT_CODE=1" ELSE "?"

framed(output, newline_ended, status) ==
    IF output = <<>> \/ newline_ended
    THEN [Printed(output, TRUE) EXCEPT !.code = status]
    ELSE Printed([output EXCEPT ![Len(output)] = Unterminated(@, status)], FALSE)

\* ShellSession.__init__ and _start_shell: a running bash in the workspace
\* root, with nothing to read and nothing printed.
InitShell ==
    /\ shell = [alive |-> TRUE, busy |-> FALSE, stdin |-> <<>>, queue |-> <<>>,
                foo |-> "", cwd |-> "ws", tracked_cwd |-> <<"ws">>]
    /\ bash_calls = <<>>

\* _send_raw: a write to the stdin of the process.
send_raw(sh, command) ==
    IF sh.alive THEN [sh EXCEPT !.stdin = Append(@, command)] ELSE sh

\* _drain_queue
drain_queue(sh) == [sh EXCEPT !.queue = <<>>]

\* bash reads the next command of its stdin and runs it.
run_command(sh, command) ==
    LET rest == [sh EXCEPT !.stdin = Tail(@)]
    IN CASE command = "export" ->
              [rest EXCEPT !.foo = "bar", !.queue = Append(@, Printed(<<>>, TRUE))]
         [] command = "cd" ->
              [rest EXCEPT !.cwd = "sub", !.queue = Append(@, Printed(<<>>, TRUE))]
         [] command = "probe" ->
              [rest EXCEPT !.queue = Append(@, Printed(<<sh.foo, sh.cwd>>, TRUE))]
         [] command = "pwd" ->
              [rest EXCEPT !.queue = Append(@, Printed(<<sh.cwd>>, FALSE))]
         [] command = "sleep" -> [rest EXCEPT !.busy = TRUE]
         [] command = "printf" ->
              [rest EXCEPT !.queue = Append(@, framed(<<"foo">>, FALSE, 1))]
         [] command = "false" ->
              [rest EXCEPT !.queue = Append(@, framed(<<>>, TRUE, 1))]
         [] OTHER -> [rest EXCEPT !.alive = FALSE, !.stdin = <<>>]

\* One call of execute_command, and what BashTool.execute makes of it.
Call(command) ==
    [command |-> command, result |-> "waiting", output |-> <<>>, exit_code |-> 0,
     timed_out |-> FALSE]

\* The start of execute_command: the poll, the drain, and the command sent.
execute_command(sh, calls, command) ==
    IF ~sh.alive
    THEN [shell |-> sh,
          calls |-> Append(calls, [Call(command) EXCEPT !.result = "session_error"])]
    ELSE [shell |-> send_raw(drain_queue(sh), command),
          calls |-> Append(calls, Call(command))]

\* The end of execute_command's loop, by the end marker or by the timeout:
\* the output, and _update_cwd started after a cd whose exit code is 0.
loop_ends(sh, calls, output, exit_code, timed_out) ==
    LET n == Len(calls)
        result == IF timed_out THEN "timeout" ELSE "ok"
    IN IF calls[n].command = "cd" /\ exit_code = 0
       THEN [shell |-> send_raw(drain_queue(sh), "pwd"),
             calls |-> [calls EXCEPT ![n].result = "updating_cwd",
                                     ![n].output = output,
                                     ![n].exit_code = exit_code,
                                     ![n].timed_out = timed_out]]
       ELSE [shell |-> sh,
             calls |-> [calls EXCEPT ![n].result = result, ![n].output = output,
                                     ![n].exit_code = exit_code,
                                     ![n].timed_out = timed_out]]

\* The end of _update_cwd's loop: the lines before the marker become _cwd.
update_cwd_ends(sh, calls, lines) ==
    LET n == Len(calls)
    IN [shell |-> IF lines # <<>> THEN [sh EXCEPT !.tracked_cwd = lines] ELSE sh,
        calls |-> [calls EXCEPT
                      ![n].result = IF calls[n].timed_out THEN "timeout" ELSE "ok"]]

\* --------------------------------------------------------- MetricsCollector
\* A PromptMetric, APICallMetric or ToolCallMetric as it is constructed:
\* end_time and duration are None (FALSE: not set), success is True and
\* error is None ("").  A PromptMetric has no success and no error field;
\* they keep these values here.  scope is how the tracking scope of the
\* metric was left, which the program does not record.
Metric(kind) ==
    [kind |-> kind, end_time |-> FALSE, duration |-> FALSE, success |-> TRUE,
     error |-> "", scope |-> "open"]

InitCollector ==
    /\ collector = [current_prompt |-> 0, metrics |-> <<>>]
    /\ tool_records = <<>>

\* track_prompt, track_api_call and track_tool_call up to their yield: the
\* metric is appended, and a prompt becomes the current prompt.
track(c, kind) ==
    LET added == [c EXCEPT !.metrics = Append(@, Metric(kind))]
    IN IF kind = "prompt" THEN [added EXCEPT !.current_prompt = Len(added.metrics)]
       ELSE added

\* ToolCallTracker.set_success and set_error, APICallTracker.set_error
set_success(c, k, success) == [c EXCEPT !.metrics[k].success = success]
set_error(c, k, error) ==
    [c EXCEPT !.metrics[k].success = FALSE, !.metrics[k].error = error]

\* The __exit__ of the context manager that track_* returns: the generator
\* is resumed after its yield, normally or with the exception thrown in.
\* track_prompt restores the previous prompt (none: prompts do not nest);
\* the other two have nothing after the yield.  The __exit__ of the
\* tracker that was yielded is not called.
context_exit(c, k, by_exception) ==
    LET left == [c EXCEPT !.metrics[k].scope =
                     IF by_exception THEN "exception" ELSE "normal"]
    IN IF c.metrics[k].kind = "prompt" THEN [left EXCEPT !.current_prompt = 0]
       ELSE left

\* A ToolResult: the words of its content and of its display.
ToolResult(content, display) == [content |-> content, display |-> display]
Cross == "cross mark"
LocalResults ==
    {ToolResult(<<"ok">>, <<"done">>),
     ToolResult(<<"Error:", "File not found">>, <<Cross, "File not found">>),
     ToolResult(<<"Error:", "Command timed out">>, <<"Command timed out">>)}
RemoteResults ==
    {ToolResult(<<"ok">>, <<"done">>),
     ToolResult(<<"Error:", "status 500">>, <<Cross, "Remote tool call failed">>),
     ToolResult(<<"failed">>, <<"completed with errors">>),
     ToolResult(<<"1", "log:", "Error:", "x">>, <<"done">>)}

\* "Error:" in tool_result.content or the cross mark in tool_result.display
reports_failure(result) ==
    \/ \E k \in 1..Len(result.content) : result.content[k] = "Error:"
    \/ \E k \in 1..Len(result.display) : result.display[k] = Cross

\* _execute_and_record from the try block on: the tool runs (remote or
\* local) and returns a result or raises; the tracker is told, the context
\* manager is left, and the result goes to add_tool_result with success.
record_tool(c, records, k, is_remote, result, raises) ==
    LET success == IF raises THEN FALSE
                   ELSE IF is_remote THEN ~reports_failure(result)
                   ELSE TRUE
        tool_result == IF raises
                       THEN ToolResult(<<"Tool execution error:", "boom">>,
                                       <<Cross, "Error:", "boom">>)
                       ELSE result
        told == IF raises THEN set_error(c, k, "boom")
                ELSE IF success THEN set_success(c, k, TRUE)
                ELSE set_error(c, k, "Tool execution reported failure")
    IN [collector |-> context_exit(told, k, FALSE),
        records |-> Append(records,
                       [content |-> tool_result.content, display |-> tool_result.display,
                        tool_success |-> success, metric |-> k, is_remote |-> is_remote])]

\* ------------------------------------------------------------- ToolExecutor
ToolOutcomes == {"ok", "raise"}

CurrentCall(s) == s.llm_response.tool_calls[s.call_idx]

\* What running the tool can do: return a result or raise; for a bash command
\* that is written to the shell, finish or time out.
Outcomes(tc) ==
    IF tc.name = "bash" /\ ~remote THEN BashOutcomes ELSE ToolOutcomes

LogCall(s, tc, requires, asked) ==
    [s EXCEPT !.calls_log = Append(@,
        [id |-> tc.id, name |-> tc.name, arguments |-> tc.arguments,
         requires |-> requires, asked |-> asked, answered |-> FALSE,
         executed |-> FALSE])]

UpdateLog(s, field, value) ==
    [s EXCEPT !.calls_log[Len(s.calls_log)][field] = value]

ToolDone(s, tc, conf) ==
    Emit(s, Event("tool_done", s.iteration, tc.id, conf, <<>>, <<>>))

handle_tool_not_found(s, tc) ==
    ToolDone(add_tool_result(s, tc.id, <<"Error: Tool not found">>), tc, FALSE)

handle_invalid_arguments(s, tc) ==
    ToolDone(sanitize_invalid_tool_call(s, tc.id, tc.name), tc, FALSE)

\* A rejection that records no result (a variant the ledger property excludes).
handle_tool_rejection_unrecorded(s, tc) == ToolDone(s, tc, FALSE)

handle_tool_rejection(s, tc) ==
    ToolDone(add_tool_result(s, tc.id, <<"Tool execution rejected by user">>),
             tc, FALSE)

\* execute_tool_call up to its first yield (steps 1-3, and the start of
\* _execute_and_record when no confirmation is needed).
execute_tool_call(s, k) ==
    CHOOSE next \in
        {LET tc == v.llm_response.tool_calls[k]
             s0 == [v EXCEPT !.call_idx = k, !.confirmed = TRUE]
             needs == requires_confirmation(s0, tc.name) /\ ~yolo_mode
         IN IF tc.name \notin RegisteredTools
            THEN handle_tool_not_found(LogCall(s0, tc, FALSE, FALSE), tc)
            ELSE IF ~JsonLoads(tc.arguments).ok
            THEN handle_invalid_arguments(LogCall(s0, tc, FALSE, FALSE), tc)
            ELSE IF needs
            THEN Emit(LogCall(s0, tc, requires_confirmation(s0, tc.name), TRUE),
                      Event("tool_confirmation_required", v.iteration, tc.id, FALSE,
                            <<>>, <<>>))
            ELSE Emit(LogCall(s0, tc, requires_confirmation(s0, tc.name), FALSE),
                      Event("tool_start", v.iteration, tc.id, FALSE, <<>>, <<>>))
         : v \in {s}} : TRUE

\* A default of allow when no callback is configured (a variant the
\* confirmation gate excludes).
get_user_confirmation_default_allow(answer) == IF has_callback THEN answer ELSE TRUE

\* _get_user_confirmation: the callback's answer, or False without a callback.
get_user_confirmation(answer) == IF has_callback THEN answer ELSE FALSE

\* execute_tool_call resumed after tool_confirmation_required (steps 3-5).
after_confirmation(s, answer) ==
    LET tc == CurrentCall(s)
        conf == get_user_confirmation(answer)
        s0 == UpdateLog([s EXCEPT !.confirmed = conf], "answered", conf)
    IN IF ~conf
       THEN handle_tool_rejection(s0, tc)
       ELSE Emit(s0, Event("tool_start", s.iteration, tc.id, FALSE, <<>>, <<>>))

\* An executor that lets the tool's exception leave the generator, where the
\* loop's handler makes an error event of it (a variant the recovery of tool
\* failures excludes).
execute_and_record_propagates(s, outcome) ==
    IF outcome = "raise"
    THEN Emit(UpdateLog(s, "executed", TRUE),
              Event("error", s.iteration, NoId, FALSE, <<>>, <<>>))
    ELSE ToolDone(add_tool_result(UpdateLog(s, "executed", TRUE),
                                  CurrentCall(s).id, <<"ok">>),
                  CurrentCall(s), s.confirmed)

\* _execute_and_record resumed after tool_start: run the tool (remote or
\* local), append the result, yield tool_done.
execute_and_record(s, outcome) ==
    LET tc == CurrentCall(s)
        args == JsonLoads(tc.arguments)
        s0 == UpdateLog(s, "executed", TRUE)
        ran ==
            IF remote
            THEN [state |-> s0,
                  content |-> IF outcome = "ok" THEN <<"ok">>
                              ELSE <<"Error: remote tool failed">>]
            ELSE IF args.kind # "object"
            THEN [state |-> s0, content |-> <<"Tool execution error">>]
            ELSE IF tc.name = "bash"
            THEN bash_execute(s0, args.command, outcome)
            ELSE [state |-> s0,
                  content |-> IF outcome = "ok" THEN <<"ok">>
                              ELSE <<"Tool execution error">>]
    IN ToolDone(add_tool_result(ran.state, tc.id, ran.content), tc, s.confirmed)

\* ---------------------------------------------------------------- AgentLoop
\* agent_done without the sentinel (a variant the cap property excludes).
finish_without_sentinel(s) ==
    CHOOSE next \in
        {Emit(write_llm_messages(v), Event("agent_done", v.iteration, NoId, FALSE, v.final_response, <<>>))
         : v \in {s}} : TRUE

\* Steps 5 and 6 of run: the sentinel, then agent_done.
finish(s) ==
    CHOOSE next \in
        {LET final == IF v.iteration >= max_iterations /\ v.final_response = <<>>
                      THEN Sentinel ELSE v.final_response
         IN Emit(write_llm_messages([v EXCEPT !.final_response = final]),
                 Event("agent_done", v.iteration, NoId, FALSE, final, <<>>))
         : v \in {s}} : TRUE

\* A loop test that is off by one (a variant the termination bound excludes).
LoopGuard_inclusive(it) == it <= max_iterations

\* while iteration < self.max_iterations
LoopGuard(it) == it < max_iterations

\* The head of the while loop, up to the yield of llm_start.
loop_head(s) ==
    CHOOSE next \in
        {IF LoopGuard(v.iteration)
         THEN Emit([v EXCEPT !.iteration = @ + 1, !.content_parts = <<>>],
                   Event("llm_start", v.iteration + 1, NoId, FALSE, <<>>, <<>>))
         ELSE finish(v)
         : v \in {s}} : TRUE

\* A loop that drops the tool calls of the response that reaches the cap (a
\* variant the behaviour at the cap excludes).
after_llm_done_stop_at_cap(s) ==
    CHOOSE next \in
        {LET r == v.llm_response
             s0 == write_llm_messages(add_assistant_message(v, r, v.iteration))
         IN IF Len(r.tool_calls) = 0
            THEN finish([s0 EXCEPT !.final_response = r.content])
            ELSE IF ~LoopGuard(v.iteration) THEN finish(s0)
            ELSE execute_tool_call(s0, 1)
         : v \in {s}} : TRUE

\* A tool loop that starts from the last call of the response (a variant the
\* order of execution excludes).
after_llm_done_last_first(s) ==
    CHOOSE next \in
        {LET r == v.llm_response
             s0 == write_llm_messages(add_assistant_message(v, r, v.iteration))
         IN IF Len(r.tool_calls) = 0
            THEN finish([s0 EXCEPT !.final_response = r.content])
            ELSE execute_tool_call(s0, Len(r.tool_calls))
         : v \in {s}} : TRUE

\* After llm_done: record the assistant message, then stop or run the tools.
after_llm_done(s) ==
    CHOOSE next \in
        {LET r == v.llm_response
             s0 == write_llm_messages(add_assistant_message(v, r, v.iteration))
         IN IF Len(r.tool_calls) = 0
            THEN finish([s0 EXCEPT !.final_response = r.content])
            ELSE execute_tool_call(s0, 1)
         : v \in {s}} : TRUE

\* After tool_done: the next tool call of the response, or the next iteration.
after_tool_done(s) ==
    CHOOSE next \in
        {IF v.call_idx < Len(v.llm_response.tool_calls)
         THEN execute_tool_call(v, v.call_idx + 1)
         ELSE loop_head(v)
         : v \in {s}} : TRUE

LlmDone(s, response) ==
    Emit([s EXCEPT !.llm_response = response],
         Event("llm_done", s.iteration, NoId, FALSE, response.content,
               CallIds(response.tool_calls)))

\* --------------------------------------------------------------- file tools
\* Paths are sequences of components below "/".  The workspace root is /ws;
\* /ws2 is a sibling directory whose name starts with the root's name; /out is
\* a directory elsewhere; /ws/link is a symbolic link to /out.
WorkspaceRoot == <<"ws">>
Link == <<"ws", "link">>
LinkTarget == <<"out">>
WsA == <<"ws", "a">>
WsB == <<"ws", "b">>
Ws2A == <<"ws2", "a">>
OutA == <<"out", "a">>
FsFiles == {WsA, WsB, Ws2A, OutA}
Directories == {<<>>, <<"ws">>, <<"ws2">>, <<"out">>}

\* A path argument: the text of the path, absolute or relative.
AbsPath(parts) == [absolute |-> TRUE, parts |-> parts]
RelPath(parts) == [absolute |-> FALSE, parts |-> parts]
NoPath == RelPath(<<"<none>">>)

\* A str is a sequence of characters and a file holds a sequence of bytes;
\* an ASCII character is its own byte.  "\t" is a tab, "\n" a newline, and
\* BigChunk stands for a run of text above the token limit.  EAcute and Euro
\* are characters outside ASCII: Latin1E9 is the byte of EAcute in latin-1
\* (not valid UTF-8), Utf8EAcute and Utf8Euro are their UTF-8 byte sequences,
\* and MojiEAcute and MojiEuro what latin-1 reads in those sequences.
Tab == "\t"
Newline == "\n"
Space == " "
BigChunk == "big"
Big == <<BigChunk>>
EAcute == "U+00E9"
Euro == "U+20AC"
Latin1E9 == "<E9>"
Utf8EAcute == "<C3 A9>"
Utf8Euro == "<E2 82 AC>"
MojiEAcute == "latin-1 of <C3 A9>"
MojiEuro == "latin-1 of <E2 82 AC>"
TabSize == 8
Spaces == [k \in 1..TabSize |-> Space]
NoFile == [exists |-> FALSE, content |-> <<>>]
File(content) == [exists |-> TRUE, content |-> content]

FsCur ==
    [files |-> files, read_files |-> read_files, accessed |-> accessed,
     reads_ok |-> reads_ok, fs_result |-> fs_result]

FsAssign(t) ==
    /\ files' = t.files
    /\ read_files' = t.read_files
    /\ accessed' = t.accessed
    /\ reads_ok' = t.reads_ok
    /\ fs_result' = t.fs_result

\* Path.resolve(): ".." leaves a directory, a symbolic link is followed.
RECURSIVE ResolveFrom(_, _)
ResolveFrom(base, parts) ==
    IF parts = <<>> THEN base
    ELSE LET c == Head(parts)
             next == IF c = ".."
                     THEN (IF base = <<>> THEN <<>> ELSE SubSeq(base, 1, Len(base) - 1))
                     ELSE (IF Append(base, c) = Link THEN LinkTarget
                           ELSE Append(base, c))
         IN ResolveFrom(next, Tail(parts))

resolve_path(path) == ResolveFrom(<<>>, path.parts)

\* Path.relative_to(root) succeeds: root's components lead resolved's.
IsUnder(resolved, root) ==
    /\ Len(resolved) >= Len(root)
    /\ SubSeq(resolved, 1, Len(root)) = root

check_absolute_path(path) == path.absolute

check_within_workspace(resolved) == IsUnder(resolved, WorkspaceRoot)

IsFile(fs, resolved) == resolved \in FsFiles /\ fs.files[resolved].exists
IsDir(resolved) == resolved \in Directories
Exists(fs, resolved) == IsFile(fs, resolved) \/ IsDir(resolved)

\* The existing files below a directory (symbolic links are not followed).
FilesUnder(fs, dir) == {f \in FsFiles : IsFile(fs, f) /\ IsUnder(f, dir)}

\* ReadTracker
mark_as_read(fs, resolved) == [fs EXCEPT !.read_files = @ \cup {resolved}]
is_read(fs, resolved) == resolved \in fs.read_files

\* The arguments of an edit, kept with its result.
EditArgs(old_string, new_string, replace_all) ==
    [old_string |-> old_string, new_string |-> new_string, replace_all |-> replace_all]
NoArgs == EditArgs(<<>>, <<>>, FALSE)

\* The result of a file tool call, with what the call was given and did;
\* lines are the line numbers an edit's error message lists.
Result(tool, path, resolved, status, changed, listed) ==
    [tool |-> tool, path |-> path, resolved |-> resolved, status |-> status,
     changed |-> changed, listed |-> listed, lines |-> <<>>, args |-> NoArgs,
     text |-> <<>>]

NoResult == Result("none", NoPath, <<>>, "none", FALSE, {})

Returns(fs, tool, path, resolved, status) ==
    [fs EXCEPT !.fs_result = Result(tool, path, resolved, status, FALSE, {})]

\* A call starts with nothing accessed, and accesses the paths it touches.
Begin(fs) == [fs EXCEPT !.accessed = {}]
Touch(fs, paths) == [fs EXCEPT !.accessed = @ \cup paths]

\* str.encode and bytes.decode, one character or byte at a time.
encode_char(c, encoding) ==
    IF encoding = "latin-1"
    THEN CASE c = EAcute -> Latin1E9
           [] c = MojiEAcute -> Utf8EAcute
           [] c = MojiEuro -> Utf8Euro
           [] c = Euro -> "UnicodeEncodeError"
           [] OTHER -> c
    ELSE CASE c = EAcute -> Utf8EAcute
           [] c = Euro -> Utf8Euro
           [] c \in {MojiEAcute, MojiEuro} -> "<twice encoded>"
           [] OTHER -> c

decode_byte(b, encoding) ==
    IF encoding = "latin-1"
    THEN CASE b = Latin1E9 -> EAcute
           [] b = Utf8EAcute -> MojiEAcute
           [] b = Utf8Euro -> MojiEuro
           [] OTHER -> b
    ELSE CASE b = Latin1E9 -> "UnicodeDecodeError"
           [] b = Utf8EAcute -> EAcute
           [] b = Utf8Euro -> Euro
           [] OTHER -> b

encode(text, encoding) ==
    LET data == [k \in 1..Len(text) |-> encode_char(text[k], encoding)]
    IN [ok |-> \A k \in 1..Len(data) : data[k] # "UnicodeEncodeError", data |-> data]

decode(data, encoding) ==
    LET text == [k \in 1..Len(data) |-> decode_byte(data[k], encoding)]
    IN [ok |-> \A k \in 1..Len(text) : text[k] # "UnicodeDecodeError", text |-> text]

\* _read_with_encoding_fallback: utf-8, then latin-1 (which decodes any
\* bytes, so that the third attempt is never made).
read_with_encoding_fallback(data) ==
    IF decode(data, "utf-8").ok
    THEN [content |-> decode(data, "utf-8").text, encoding |-> "utf-8"]
    ELSE [content |-> decode(data, "latin-1").text, encoding |-> "latin-1"]

\* open(path, 'w', encoding) and write: the file is truncated when it is
\* opened, the text is encoded when it is written.
write_text(fs, resolved, text, encoding) ==
    LET e == encode(text, encoding)
    IN [ok |-> e.ok,
        fs |-> [fs EXCEPT !.files[resolved] = File(IF e.ok THEN e.data ELSE <<>>)]]

\* _check_token_limit: len(content) // 4 > MAX_TOKENS.
check_token_limit(content) == \E k \in 1..Len(content) : content[k] = BigChunk

\* str.splitlines(keepends=True): a line ends after its newline, and there
\* is no line after the last newline.  The texts have no carriage return.
RECURSIVE splitlines(_)
splitlines(text) ==
    IF text = <<>> THEN <<>>
    ELSE LET at == {k \in 1..Len(text) : text[k] = Newline}
             end == IF at = {} THEN Len(text) ELSE CHOOSE k \in at : \A m \in at : k <= m
         IN <<SubSeq(text, 1, end)>> \o splitlines(SubSeq(text, end + 1, Len(text)))

\* ''.join(lines)
RECURSIVE join(_)
join(lines) == IF lines = <<>> THEN <<>> ELSE Head(lines) \o join(Tail(lines))

\* str.split('\n'): the pieces between the newlines, one more than newlines.
RECURSIVE split(_)
split(text) ==
    LET at == {k \in 1..Len(text) : text[k] = Newline}
    IN IF at = {} THEN <<text>>
       ELSE LET k == CHOOSE k \in at : \A m \in at : k <= m
            IN <<SubSeq(text, 1, k - 1)>> \o split(SubSeq(text, k + 1, Len(text)))

\* _format_with_line_numbers: one numbered line for each piece of the content.
format_with_line_numbers(content, start_line) ==
    IF content = <<>> THEN <<>>
    ELSE LET pieces == split(content)
         IN [i \in 1..Len(pieces) |-> [num |-> start_line + i - 1, line |-> pieces[i]]]

DEFAULT_MAX_LINES == 1000

\* Steps 6 to 9 of ReadFileTool.execute with no line range: the status, and
\* the formatted content.
read_lines(data) ==
    LET lines == splitlines(read_with_encoding_fallback(data).content)
        start_idx == 0
        end_idx == IF start_idx + DEFAULT_MAX_LINES < Len(lines)
                   THEN start_idx + DEFAULT_MAX_LINES ELSE Len(lines)
        content == join(SubSeq(lines, start_idx + 1, end_idx))
    IN IF start_idx >= Len(lines) THEN [status |-> "invalid_start_line", text |-> <<>>]
       ELSE IF check_token_limit(content) THEN [status |-> "too_large", text |-> <<>>]
       ELSE [status |-> "ok", text |-> format_with_line_numbers(content, 1)]

\* ReadFileTool.execute(path), with no line range.
read_file(fs, path) ==
    LET resolved == resolve_path(path)
        seen == Touch(fs, {resolved})
    IN IF ~check_absolute_path(path)
       THEN Returns(fs, "read_file", path, <<>>, "not_absolute")
       ELSE IF ~check_within_workspace(resolved)
       THEN Returns(fs, "read_file", path, resolved, "outside_workspace")
       ELSE IF ~Exists(fs, resolved)
       THEN Returns(seen, "read_file", path, resolved, "not_found")
       ELSE IF ~IsFile(fs, resolved)
       THEN Returns(seen, "read_file", path, resolved, "not_a_file")
       ELSE LET read == read_lines(fs.files[resolved].content) IN
            IF read.status # "ok"
            THEN Returns(seen, "read_file", path, resolved, read.status)
            ELSE LET marked == IF has_tracker THEN mark_as_read(seen, resolved) ELSE seen
                     done == [marked EXCEPT !.reads_ok = @ \cup {resolved}]
                 IN [done EXCEPT !.fs_result =
                         [Result("read_file", path, resolved, "ok",
                                 marked.read_files # fs.read_files, {})
                             EXCEPT !.text = read.text]]


\* A write that marks the file as read (a variant the tracker's frame
\* excludes).
write_file_marking(fs, path, content) ==
    LET resolved == resolve_path(path)
    IN IF check_absolute_path(path) /\ check_within_workspace(resolved)
          /\ ~check_token_limit(content) /\ resolved \in FsFiles
       THEN LET written == write_text(Touch(fs, {resolved}), resolved, content, "utf-8").fs
            IN [written EXCEPT !.read_files = @ \cup {resolved},
                               !.fs_result = Result("write_file", path, resolved, "ok",
                                                    TRUE, {})]
       ELSE Returns(fs, "write_file", path, resolved, "error")

\* WriteFileTool.execute(path, content).
write_file(fs, path, content) ==
    LET resolved == resolve_path(path)
        seen == Touch(fs, {resolved})
    IN IF ~check_absolute_path(path)
       THEN Returns(fs, "write_file", path, <<>>, "not_absolute")
       ELSE IF ~check_within_workspace(resolved)
       THEN Returns(fs, "write_file", path, resolved, "outside_workspace")
       ELSE IF check_token_limit(content)
       THEN Returns(fs, "write_file", path, resolved, "too_large")
       ELSE IF resolved \notin FsFiles
       THEN Returns(seen, "write_file", path, resolved, "error")
       ELSE LET written == write_text(seen, resolved, content, "utf-8").fs
            IN [written EXCEPT !.fs_result =
                    Result("write_file", path, resolved, "ok",
                           fs.files[resolved] # written.files[resolved], {})]

\* str.expandtabs(): a tab becomes the spaces up to the next multiple of
\* TabSize columns; the column starts again after a newline.
RECURSIVE ExpandFrom(_, _)
ExpandFrom(text, col) ==
    IF text = <<>> THEN <<>>
    ELSE LET c == Head(text) IN
         IF c = Tab
         THEN [k \in 1..(TabSize - (col % TabSize)) |-> Space]
              \o ExpandFrom(Tail(text), 0)
         ELSE IF c = Newline THEN <<c>> \o ExpandFrom(Tail(text), 0)
         ELSE <<c>> \o ExpandFrom(Tail(text), col + 1)

expandtabs(text) == ExpandFrom(text, 0)

\* text[k:].startswith(sub), with positions from 1.
IsAt(text, sub, k) ==
    /\ k + Len(sub) - 1 <= Len(text)
    /\ SubSeq(text, k, k + Len(sub) - 1) = sub

\* str.find(sub, start), with positions from 1 and 0 for "not found".
find(text, sub, start) ==
    LET at == {k \in start..Len(text) : IsAt(text, sub, k)}
    IN IF at = {} THEN 0 ELSE CHOOSE k \in at : \A m \in at : k <= m

\* str.count(sub): the occurrences that do not overlap, from the left.
RECURSIVE CountFrom(_, _, _)
CountFrom(text, sub, start) ==
    LET pos == find(text, sub, start)
    IN IF pos = 0 THEN 0 ELSE 1 + CountFrom(text, sub, pos + Len(sub))

count(text, sub) == CountFrom(text, sub, 1)

\* str.replace(old, new, limit): limit = -1 replaces every occurrence.
RECURSIVE ReplaceFrom(_, _, _, _, _)
ReplaceFrom(text, old, new, start, limit) ==
    LET pos == find(text, old, start)
    IN IF pos = 0 \/ limit = 0 THEN SubSeq(text, start, Len(text))
       ELSE SubSeq(text, start, pos - 1) \o new
            \o ReplaceFrom(text, old, new, pos + Len(old), limit - 1)

replace(text, old, new, limit) == ReplaceFrom(text, old, new, 1, limit)

\* content[:pos].count('\n') + 1
LineOf(text, pos) ==
    Cardinality({k \in 1..(pos - 1) : text[k] = Newline}) + 1

\* _find_occurrence_lines: the search goes on one character after each match.
RECURSIVE OccurrenceLinesFrom(_, _, _)
OccurrenceLinesFrom(content, search_string, start_pos) ==
    LET pos == find(content, search_string, start_pos)
    IN IF pos = 0 THEN <<>>
       ELSE <<LineOf(content, pos)>>
            \o OccurrenceLinesFrom(content, search_string, pos + 1)

find_occurrence_lines(content, search_string) ==
    OccurrenceLinesFrom(content, search_string, 1)

\* An edit that does not consult the tracker (a variant read-before-edit
\* excludes).
edit_allowed_unchecked(fs, resolved) == TRUE

\* Step 6 of EditFileTool.execute: no tracker, or the file was read.
edit_allowed(fs, resolved) == ~has_tracker \/ is_read(fs, resolved)

\* EditFileTool.execute(file_path, old_string, new_string, replace_all).
edit_file(fs, path, old_string, new_string, replace_all) ==
    LET resolved == resolve_path(path)
        seen == Touch(fs, {resolved})
        read == read_with_encoding_fallback(fs.files[resolved].content)
        file_content == expandtabs(read.content)
        old == expandtabs(old_string)
        new == expandtabs(new_string)
        occurrences == count(file_content, old)
        new_file_content ==
            IF replace_all THEN replace(file_content, old, new, -1)
            ELSE replace(file_content, old, new, 1)
        written == write_text(seen, resolved, new_file_content, read.encoding)
        done ==
            IF ~check_absolute_path(path)
            THEN Returns(fs, "edit_file", path, <<>>, "not_absolute")
            ELSE IF ~check_within_workspace(resolved)
            THEN Returns(fs, "edit_file", path, resolved, "outside_workspace")
            ELSE IF ~Exists(fs, resolved)
            THEN Returns(seen, "edit_file", path, resolved, "not_found")
            ELSE IF ~IsFile(fs, resolved)
            THEN Returns(seen, "edit_file", path, resolved, "not_a_file")
            ELSE IF ~edit_allowed(fs, resolved)
            THEN Returns(seen, "edit_file", path, resolved, "not_read")
            ELSE IF old = new
            THEN Returns(seen, "edit_file", path, resolved, "identical")
            ELSE IF occurrences = 0
            THEN Returns(seen, "edit_file", path, resolved, "string_not_found")
            ELSE IF occurrences > 1 /\ ~replace_all
            THEN [Returns(seen, "edit_file", path, resolved, "not_unique")
                     EXCEPT !.fs_result.lines = find_occurrence_lines(file_content, old)]
            ELSE IF check_token_limit(new_file_content)
            THEN Returns(seen, "edit_file", path, resolved, "too_large")
            ELSE IF ~written.ok
            THEN [written.fs EXCEPT !.fs_result =
                     Result("edit_file", path, resolved, "write_failed",
                            fs.files[resolved] # written.fs.files[resolved], {})]
            ELSE [written.fs EXCEPT !.fs_result =
                     Result("edit_file", path, resolved, "ok",
                            fs.files[resolved] # written.fs.files[resolved], {})]
    IN [done EXCEPT !.fs_result.args = EditArgs(old_string, new_string, replace_all)]

\* The search path of glob and grep: the path argument, or the root.
SearchPath(path) == IF path = NoPath THEN WorkspaceRoot ELSE resolve_path(path)

\* GlobTool._execute_glob: the pattern (a directory part and "*") is joined
\* to the search path, or replaces it when it is absolute; every match is
\* resolved and kept if it is a file.
glob_dir(pattern, search_path) ==
    ResolveFrom(IF pattern.absolute THEN <<>> ELSE search_path, pattern.parts)

execute_glob(fs, pattern, search_path) ==
    LET dir == glob_dir(pattern, search_path)
    IN {f \in FsFiles : IsFile(fs, f) /\ Len(f) = Len(dir) + 1 /\ IsUnder(f, dir)}

\* GlobTool.execute(pattern, path).
glob(fs, pattern, path) ==
    LET search_path == SearchPath(path)
        matched_files == execute_glob(fs, pattern, search_path)
    IN IF path # NoPath /\ ~path.absolute
       THEN Returns(fs, "glob", path, <<>>, "not_absolute")
       ELSE IF path # NoPath /\ ~check_within_workspace(search_path)
       THEN Returns(fs, "glob", path, search_path, "outside_workspace")
       ELSE IF ~Exists(fs, search_path)
       THEN Returns(Touch(fs, {search_path}), "glob", path, search_path, "not_found")
       ELSE IF ~IsDir(search_path)
       THEN Returns(Touch(fs, {search_path}), "glob", path, search_path,
                    "not_a_directory")
       ELSE [Touch(fs, {search_path, glob_dir(pattern, search_path)}
                           \cup matched_files) EXCEPT !.fs_result =
                Result("glob", path, search_path, "ok", FALSE, matched_files)]

\* GrepTool.execute(pattern, path): ripgrep below the search path.
grep(fs, path) ==
    LET search_path == SearchPath(path)
        searched == FilesUnder(fs, search_path)
    IN IF path # NoPath /\ ~path.absolute
       THEN Returns(fs, "grep", path, <<>>, "not_absolute")
       ELSE IF path # NoPath /\ ~check_within_workspace(search_path)
       THEN Returns(fs, "grep", path, search_path, "outside_workspace")
       ELSE IF ~Exists(fs, search_path)
       THEN Returns(Touch(fs, {search_path}), "grep", path, search_path, "not_found")
       ELSE [Touch(fs, {search_path} \cup searched) EXCEPT !.fs_result =
                Result("grep", path, search_path, "ok", FALSE, searched)]

\* ListDirectoryTool.execute(path): os.walk below the directory.
list_directory(fs, path) ==
    LET dir_path == resolve_path(path)
        listed == FilesUnder(fs, dir_path)
    IN IF ~check_absolute_path(path)
       THEN Returns(fs, "list_directory", path, <<>>, "not_absolute")
       ELSE IF ~check_within_workspace(dir_path)
       THEN Returns(fs, "list_directory", path, dir_path, "outside_workspace")
       ELSE IF ~Exists(fs, dir_path)
       THEN Returns(Touch(fs, {dir_path}), "list_directory", path, dir_path,
                    "not_found")
       ELSE IF ~IsDir(dir_path)
       THEN Returns(Touch(fs, {dir_path}), "list_directory", path, dir_path,
                    "not_a_directory")
       ELSE [Touch(fs, {dir_path} \cup listed) EXCEPT !.fs_result =
                Result("list_directory", path, dir_path, "ok", FALSE, listed)]

\* The file system of a session, before any tool call: /ws/a is a file in
\* latin-1, /ws/b does not exist.
InitFiles ==
    /\ files = [f \in FsFiles |-> IF f = WsB THEN NoFile
                                  ELSE IF f = WsA THEN File(<<"x", Latin1E9>>)
                                  ELSE File(<<"x">>)]
    /\ read_files = {}
    /\ accessed = {}
    /\ reads_ok = {}
    /\ fs_result = NoResult

\* -------------------------------------------------------- retry_on_failure
max_retries == 3
initial_delay == 1
exponential_base == 2

RECURSIVE Pow(_, _)
Pow(b, n) == IF n = 0 THEN 1 ELSE b * Pow(b, n - 1)

\* Durations are counted in tenths of a second.
Tenths == 10
\* retry_after is None.
NoRetryAfter == -1

\* What one invocation of the wrapped request does: it returns, or raises
\* TimeoutError, RateLimitError (with no Retry-After, or with one of 0, of
\* 0.1 or of 7 seconds) or an error that is not retryable.
Outcome(kind, retry_after) == [kind |-> kind, retry_after |-> retry_after]
RequestErrors ==
    {Outcome("timeout", NoRetryAfter), Outcome("rate_limit", NoRetryAfter),
     Outcome("rate_limit", 0), Outcome("rate_limit", 1),
     Outcome("rate_limit", 7 * Tenths), Outcome("api_error", NoRetryAfter)}

RetryCur ==
    [retry_pc |-> retry_pc, attempt |-> attempt, invocations |-> invocations,
     sleeps |-> sleeps, raised |-> raised]

RetryAssign(t) ==
    /\ retry_pc' = t.retry_pc
    /\ attempt' = t.attempt
    /\ invocations' = t.invocations
    /\ sleeps' = t.sleeps
    /\ raised' = t.raised

\* A wrapper that retries every error (a variant the retry policy excludes).
is_retryable_any(e) == TRUE

\* except retryable_exceptions
is_retryable(e) == e.kind \in {"timeout", "rate_limit"}

\* if attempt == max_retries - 1
is_last_attempt(n) == n = max_retries - 1

\* The wait for an error that takes every retry_after it carries, 0
\* included, and the backoff of the attempt otherwise.
wait_time_any(e, n) ==
    IF e.kind = "rate_limit" /\ e.retry_after # NoRetryAfter THEN e.retry_after
    ELSE Tenths * initial_delay * Pow(exponential_base, n)

\* if isinstance(e, RateLimitError) and e.retry_after: None and 0 are false.
wait_time(e, n) ==
    IF e.kind = "rate_limit" /\ e.retry_after \notin {NoRetryAfter, 0}
    THEN e.retry_after
    ELSE Tenths * initial_delay * Pow(exponential_base, n)

\* One pass of the wrapper's loop whose invocation raised e.
on_error(r, e) ==
    LET called == [r EXCEPT !.invocations = Append(@, e.kind),
                            !.raised = Append(@, e)]
    IN IF ~is_retryable(e) \/ is_last_attempt(r.attempt)
       THEN [called EXCEPT !.retry_pc = "raised"]
       ELSE LET slept == [called EXCEPT !.sleeps = Append(@, wait_time(e, r.attempt)),
                                         !.attempt = @ + 1]
            IN IF slept.attempt < max_retries THEN slept
               ELSE [slept EXCEPT !.retry_pc = "raised"]

\* One pass of the wrapper's loop whose invocation returned.
on_return(r) ==
    [r EXCEPT !.invocations = Append(@, "ok"), !.retry_pc = "returned"]

InitWrapper ==
    /\ retry_pc = "idle"
    /\ attempt = 0
    /\ invocations = <<>>
    /\ sleeps = <<>>
    /\ raised = <<>>
    /\ requests = 0

\* ------------------------------------------------- OpenAICompatibleLLM
\* No request was made.
InitAdapter ==
    /\ gen_stream = FALSE
    /\ creates = <<>>
    /\ reaches_loop = "none"

\* What client.chat.completions.create does: it returns, or raises.
CreateOutcomes == {Outcome("ok", NoRetryAfter)} \cup RequestErrors

\* generate(stream), one pass of the wrapper's loop.  Without streaming
\* _handle_completion calls create(), and an exception is converted and
\* raised inside the wrapper.  With streaming _handle_stream is a generator
\* function: the call returns a generator and create() has not been called.
generate(r, stream_arg, o) ==
    IF stream_arg
    THEN [wrapper |-> on_return(r), created |-> <<>>, got |-> "generator"]
    ELSE IF o.kind = "ok"
    THEN [wrapper |-> on_return(r), created |-> <<"ok">>, got |-> "response"]
    ELSE LET w == on_error(r, o)
         IN [wrapper |-> w, created |-> <<o.kind>>,
             got |-> IF w.retry_pc = "raised" THEN "exception" ELSE "none"]

\* The consumer's first next() on the generator: _handle_stream calls
\* create(), outside generate and its wrapper.
handle_stream(o) ==
    [created |-> <<o.kind>>, got |-> IF o.kind = "ok" THEN "response" ELSE "exception"]

\* ---------------------------------------------------- streaming reassembly
\* A chunk's delta: content, or one tool-call delta with its per-call index
\* and the fragments of its fields (<<>> for a field the delta leaves out).
ContentDelta(text) ==
    [kind |-> "content", content |-> text, index |-> 0, id |-> <<>>, type |-> <<>>,
     name |-> <<>>, arguments |-> <<>>]
ToolCallDelta(index, id, type, name, arguments) ==
    [kind |-> "tool_call", content |-> <<>>, index |-> index, id |-> id,
     type |-> type, name |-> name, arguments |-> arguments]

\* Nothing was received: accumulated_tool_calls is empty, and the consumer
\* has no content part.
InitWire ==
    wire = [arrived |-> <<>>, accumulated |-> <<>>, parts |-> <<>>, done |-> FALSE,
            response |-> NoResponse]

\* The position of the entry of accumulated_tool_calls with this key, or 0.
Position(accumulated, idx) ==
    IF \E k \in 1..Len(accumulated) : accumulated[k].index = idx
    THEN CHOOSE k \in 1..Len(accumulated) : accumulated[k].index = idx
    ELSE 0

\* The loop body of _handle_stream for a tool-call delta.  choice is
\* chunk.choices[0], whose index is 0.
accumulate(accumulated, tc_delta) ==
    LET idx == Max({tc_delta.index, 0})
        started ==
            IF Position(accumulated, idx) # 0 THEN accumulated
            ELSE Append(accumulated,
                        [index |-> idx, id |-> tc_delta.id,
                         type |-> IF tc_delta.type # <<>> THEN tc_delta.type
                                  ELSE <<"function">>,
                         name |-> <<>>, arguments |-> <<>>])
        k == Position(started, idx)
    IN [started EXCEPT
           ![k].id = IF tc_delta.id # <<>> THEN tc_delta.id ELSE @,
           ![k].type = IF tc_delta.type # <<>> THEN tc_delta.type ELSE @,
           ![k].name = IF tc_delta.name # <<>> THEN tc_delta.name ELSE @,
           ![k].arguments = @ \o tc_delta.arguments]

\* One chunk of the stream: a content delta is yielded, and the consumer
\* appends it to content_parts; a tool-call delta is accumulated.
on_chunk(w, delta) ==
    LET got == [w EXCEPT !.arrived = Append(@, delta)]
    IN IF delta.kind = "content"
       THEN IF delta.content # <<>> THEN [got EXCEPT !.parts = Append(@, delta.content)]
            ELSE got
       ELSE [got EXCEPT !.accumulated = accumulate(@, delta)]

\* The end of the stream: the accumulated tool calls are yielded in the
\* order of the dict, and the consumer builds the response.
on_stream_end(w) ==
    [w EXCEPT !.done = TRUE,
              !.response = [content |-> join(w.parts), tool_calls |-> w.accumulated]]

\* ------------------------------------------------------------------ actions
Contents == {<<>>, <<"text">>}

\* The tool_calls of a response: n calls, numbered from the calls made so far.
IdOf(n) == ((n - 1) % MaxIds) + 1

ToolCallSeqs ==
    UNION {{[k \in 1..n |-> [id |-> IdOf(calls_made + k), name |-> f[k][1],
                              arguments |-> f[k][2]]] : f \in [1..n -> model_calls]}
           : n \in 0..(MaxInputs - runs - calls_made)}

\* A response: tool calls, or a final answer that may be empty.
Responses ==
    {[content |-> c, tool_calls |-> tcs] : c \in Contents, tcs \in ToolCallSeqs}
    \ {r \in [content : Contents, tool_calls : ToolCallSeqs] :
          r.tool_calls # <<>> /\ r.content # <<>>}

Config == <<yolo_mode, has_callback, remote, model_calls, user_queries>>

\* generate converts the ledger before the request is sent.
request_ok(s) == convert_messages(s.messages).ok

\* The request of this iteration is issued when the generator leaves llm_start.
Requested(s) == IF s.pc = "llm_start" THEN [s EXCEPT !.llm_calls = @ + 1] ELSE s

\* run(user_query, stream), from the call to the first yield.
Run ==
    /\ pc = "idle"
    /\ runs + calls_made < MaxInputs
    /\ runs' = runs + 1
    /\ LET s0 == [Cur EXCEPT !.events = <<>>, !.llm_calls = 0, !.calls_log = <<>>,
                             !.iteration = 0, !.final_response = <<>>,
                             !.llm_response = NoResponse, !.call_idx = 0]
       IN \E user_query \in user_queries :
              Assign(loop_head([add_user_message(s0, user_query)
                                EXCEPT !.prompt_scope = "open"]))
    /\ UNCHANGED <<outside_loop, Config, stream, calls_made, chunks_made>>

\* Non-streaming: the LLM returns a response; llm_done is yielded.
LLMRespond ==
    /\ pc = "llm_start"
    /\ ~stream
    /\ request_ok(Cur)
    /\ \E response \in Responses :
        /\ Assign(LlmDone(Requested(Cur), response))
        /\ calls_made' = calls_made + Len(response.tool_calls)
    /\ UNCHANGED <<outside_loop, Config, stream, runs, chunks_made>>

\* An error handler that records what the failed call had streamed (a variant
\* the error path excludes).
LLMRaise_keeps_partial ==
    /\ \/ pc = "llm_start"
       \/ pc = "llm_chunk"
    /\ Assign(Emit(add_assistant_message(Requested(Cur),
                        [content |-> content_parts, tool_calls |-> <<>>], iteration),
                   Event("error", iteration, NoId, FALSE, <<>>, <<>>)))
    /\ UNCHANGED <<outside_loop, Config, stream, runs, calls_made, chunks_made>>

\* The LLM call, or the stream while it is consumed, raises: error is yielded.
LLMRaise ==
    /\ \/ pc = "llm_start"
       \/ pc = "llm_chunk"
    /\ Assign(Emit(Requested(Cur), Event("error", iteration, NoId, FALSE, <<>>, <<>>)))
    /\ UNCHANGED <<outside_loop, Config, stream, runs, calls_made, chunks_made>>

\* Streaming: a content chunk arrives; llm_chunk is yielded.
StreamChunk ==
    /\ stream
    /\ pc \in {"llm_start", "llm_chunk"}
    /\ request_ok(Cur)
    /\ chunks_made < MaxChunks
    /\ chunks_made' = chunks_made + 1
    /\ Assign(Emit([Requested(Cur) EXCEPT !.content_parts = Append(@, "text")],
                   Event("llm_chunk", iteration, NoId, FALSE, <<"text">>, <<>>)))
    /\ UNCHANGED <<outside_loop, Config, stream, runs, calls_made>>

\* Streaming: the stream ends (tool_call chunks, done); llm_done is yielded.
StreamEnd ==
    /\ stream
    /\ pc \in {"llm_start", "llm_chunk"}
    /\ request_ok(Cur)
    /\ \E tcs \in ToolCallSeqs :
        /\ Assign(LlmDone(Requested(Cur), [content |-> content_parts, tool_calls |-> tcs]))
        /\ calls_made' = calls_made + Len(tcs)
    /\ UNCHANGED <<outside_loop, Config, stream, runs, chunks_made>>

AfterLlmDone ==
    /\ pc = "llm_done"
    /\ Assign(after_llm_done(Cur))
    /\ UNCHANGED <<outside_loop, Config, stream, runs, calls_made, chunks_made>>

Confirm ==
    /\ pc = "tool_confirmation_required"
    /\ \E answer \in BOOLEAN : Assign(after_confirmation(Cur, answer))
    /\ UNCHANGED <<outside_loop, Config, stream, runs, calls_made, chunks_made>>

ExecuteTool ==
    /\ pc = "tool_start"
    /\ \E outcome \in Outcomes(CurrentCall(Cur)) :
        Assign(execute_and_record(Cur, outcome))
    /\ UNCHANGED <<outside_loop, Config, stream, runs, calls_made, chunks_made>>

AfterToolDone ==
    /\ pc = "tool_done"
    /\ Assign(after_tool_done(Cur))
    /\ UNCHANGED <<outside_loop, Config, stream, runs, calls_made, chunks_made>>

\* An error handler that goes on with the loop instead of breaking (a variant
\* the event order excludes).
AfterError_continue ==
    /\ pc = "error"
    /\ Assign(loop_head(Cur))
    /\ UNCHANGED <<outside_loop, Config, stream, runs, calls_made, chunks_made>>

\* After the error event: break, then steps 5 and 6.
AfterError ==
    /\ pc = "error"
    /\ Assign(finish(Cur))
    /\ UNCHANGED <<outside_loop, Config, stream, runs, calls_made, chunks_made>>

\* After agent_done: the finally block; the generator is exhausted.
Return ==
    /\ pc = "agent_done"
    /\ pc' = "idle"
    /\ prompt_scope' = "closed"
    /\ UNCHANGED <<messages, prompt_counter, current_iteration, trajectory, snapshot, iteration,
                   final_response, content_parts, llm_response, call_idx, confirmed,
                   bash_requires_conf, shell_input, events, llm_calls, calls_log,
                   outside_loop, Config, stream, runs, calls_made, chunks_made>>

\* The parts of a session after construction: the ledger holds the system
\* message, no query was run, no file tool was called and no request was made.
InitParts ==
    /\ messages = <<SystemMessage>>
    /\ prompt_counter = 0
    /\ current_iteration = 0
    /\ trajectory = <<>>
    /\ snapshot = <<>>
    /\ prompt_scope = "none"
    /\ pc = "idle"
    /\ iteration = 0
    /\ final_response = <<>>
    /\ content_parts = <<>>
    /\ llm_response = NoResponse
    /\ call_idx = 0
    /\ confirmed = TRUE
    /\ bash_requires_conf = TRUE
    /\ shell_input = {}
    /\ events = <<>>
    /\ llm_calls = 0
    /\ runs = 0
    /\ calls_log = <<>>
    /\ calls_made = 0
    /\ chunks_made = 0
    /\ InitFiles
    /\ InitWrapper
    /\ InitAdapter
    /\ InitShell
    /\ InitCollector
    /\ InitWire
    /\ anthropic_request = [from |-> <<>>, data |-> <<>>]

\* A session of the command line: its tools share the session's ReadTracker.
InitSession ==
    /\ InitParts
    /\ has_tracker = TRUE

InitLoop ==
    /\ InitSession
    /\ stream \in BOOLEAN
    /\ yolo_mode \in BOOLEAN
    /\ has_callback \in BOOLEAN
    \* the command line passes no callback in YOLO mode (and the executor
    \* never consults one there)
    /\ yolo_mode => ~has_callback
    /\ remote \in BOOLEAN
    /\ user_queries = {TextQuery}

\* A session whose model calls the file tools.
Init ==
    /\ InitLoop
    /\ model_calls \in FileModels

\* A session whose model runs bash commands, in the local shell.
InitBash ==
    /\ InitLoop
    /\ ~remote
    /\ model_calls \in BashModels

Next ==
    \/ Run
    \/ LLMRespond
    \/ LLMRaise
    \/ StreamChunk
    \/ StreamEnd
    \/ AfterLlmDone
    \/ Confirm
    \/ ExecuteTool
    \/ AfterToolDone
    \/ AfterError
    \/ Return

Spec == Init /\ [][Next]_vars

SpecBash == InitBash /\ [][Next]_vars

\* The steps of a run that is under way: the consumer resumes the generator,
\* and the LLM call, the stream, the callback and the tool each return or raise.
Resume ==
    \/ LLMRespond
    \/ LLMRaise
    \/ StreamChunk
    \/ StreamEnd
    \/ AfterLlmDone
    \/ Confirm
    \/ ExecuteTool
    \/ AfterToolDone
    \/ AfterError
    \/ Return

\* A session of local tools whose model writes files.
InitLive ==
    /\ InitLoop
    /\ ~remote
    /\ model_calls = WriteCalls

\* Runs whose event stream is consumed to the end.
SpecLive == InitLive /\ [][Next]_vars /\ WF_vars(Resume)

\* ------------------------------------------------------------------ resume
\* The command line is started again with the session's id: the snapshot
\* the last run wrote is loaded into a new ContextEngine, and the tools are
\* built anew.
ResumeSession ==
    /\ pc = "idle"
    /\ runs >= 1
    /\ convert_messages(messages).ok
    /\ Assign([new_context_engine(Cur,
                   load_conversation_history(convert_messages(messages).data))
               EXCEPT !.bash_requires_conf = TRUE])
    /\ read_files' = {}
    /\ UNCHANGED <<files, has_tracker, accessed, reads_ok, fs_result, retryvars,
                   adaptervars, sidevars, Config, stream, runs, calls_made, chunks_made>>

\* A command-line session, without streaming, whose user sends text and
\* multimodal queries and whose model writes files.
InitResumable ==
    /\ InitSession
    /\ stream = FALSE
    /\ yolo_mode = FALSE
    /\ has_callback = TRUE
    /\ remote = FALSE
    /\ model_calls = WriteCalls
    /\ user_queries = {TextQuery, BlockQuery}

NextResumable ==
    \/ Run
    \/ LLMRespond
    \/ LLMRaise
    \/ AfterLlmDone
    \/ Confirm
    \/ ExecuteTool
    \/ AfterToolDone
    \/ AfterError
    \/ Return
    \/ ResumeSession

SpecResumable == InitResumable /\ [][NextResumable]_vars

\* ------------------------------------------------------- file tool actions
\* The path arguments of the calls: files and a directory of the workspace, a
\* path that stays inside through "..", paths that leave it through "..",
\* through the link and by naming the sibling directory, a relative path.
PathArgs ==
    {AbsPath(WsA), AbsPath(WsB), AbsPath(<<"ws", "d", "..", "a">>),
     AbsPath(<<"ws", "..", "ws2", "a">>), AbsPath(Ws2A), AbsPath(<<"ws", "link", "a">>),
     RelPath(<<"a">>), AbsPath(WorkspaceRoot)}
DirArgs ==
    {AbsPath(WorkspaceRoot), AbsPath(<<"ws", "..", "ws2">>), AbsPath(<<"ws2">>),
     AbsPath(Link), RelPath(<<"ws">>), AbsPath(WsA)}
\* Glob patterns "*", "../ws2/*", "/out/*" and "link/*", by their directory.
GlobPatterns ==
    {RelPath(<<>>), RelPath(<<"..", "ws2">>), AbsPath(<<"out">>), RelPath(<<"link">>)}
WriteContents == {<<>>, <<"x", "x">>, <<Tab, "x">>, Big}

ReadFile ==
    /\ \E path \in PathArgs : FsAssign(read_file(Begin(FsCur), path))
    /\ UNCHANGED <<outside_fs, has_tracker>>

WriteFile ==
    /\ \E path \in PathArgs, content \in WriteContents :
          FsAssign(write_file(Begin(FsCur), path, content))
    /\ UNCHANGED <<outside_fs, has_tracker>>

EditFile ==
    /\ \E path \in PathArgs, old_string \in {<<"x">>, <<Tab>>},
          new_string \in {<<"x">>, <<"y">>}, replace_all \in BOOLEAN :
          FsAssign(edit_file(Begin(FsCur), path, old_string, new_string, replace_all))
    /\ UNCHANGED <<outside_fs, has_tracker>>

Glob ==
    /\ \E pattern \in GlobPatterns, path \in DirArgs \cup {NoPath} :
          FsAssign(glob(Begin(FsCur), pattern, path))
    /\ UNCHANGED <<outside_fs, has_tracker>>

Grep ==
    /\ \E path \in DirArgs \cup {NoPath} : FsAssign(grep(Begin(FsCur), path))
    /\ UNCHANGED <<outside_fs, has_tracker>>

ListDirectory ==
    /\ \E path \in DirArgs : FsAssign(list_directory(Begin(FsCur), path))
    /\ UNCHANGED <<outside_fs, has_tracker>>

\* A command-line session (its tools share a ReadTracker) whose file tools
\* are called, in any order and with any arguments.
InitFs ==
    /\ InitSession
    /\ user_queries = {TextQuery}
    /\ stream = FALSE
    /\ yolo_mode = FALSE
    /\ has_callback = TRUE
    /\ remote = FALSE
    /\ model_calls = ReadCalls

NextFs ==
    \/ ReadFile
    \/ WriteFile
    \/ EditFile
    \/ Glob
    \/ Grep
    \/ ListDirectory

SpecFs == InitFs /\ [][NextFs]_vars

\* The same session, with the texts that separate the cases of an edit: a
\* string that occurs once, several times, on several lines, overlapping
\* itself, behind a tab; a replacement with a character latin-1 does not
\* have, and one above the token limit.
EditPaths == {AbsPath(WsA), AbsPath(WsB), RelPath(<<"a">>), AbsPath(Ws2A)}
TextContents ==
    {<<"x", "x", "x">>, <<"x", "x", Newline, "x", "x", "x">>, <<"x", Tab, "x", Tab>>}
OldStrings == {<<"x">>, <<"x", "x">>, <<Tab>>}
NewStrings == {<<"y">>, <<"x">>, <<Euro>>, Big}

ReadText ==
    /\ \E path \in EditPaths : FsAssign(read_file(Begin(FsCur), path))
    /\ UNCHANGED <<outside_fs, has_tracker>>

WriteText ==
    /\ \E content \in TextContents :
          FsAssign(write_file(Begin(FsCur), AbsPath(WsA), content))
    /\ UNCHANGED <<outside_fs, has_tracker>>

EditText ==
    /\ \E path \in EditPaths, old_string \in OldStrings, new_string \in NewStrings,
          replace_all \in BOOLEAN :
          FsAssign(edit_file(Begin(FsCur), path, old_string, new_string, replace_all))
    /\ UNCHANGED <<outside_fs, has_tracker>>

NextEdit == ReadText \/ WriteText \/ EditText

SpecEdit == InitFs /\ [][NextEdit]_vars

\* The same session with every tool that touches files or the shell, and
\* with the user's queries: BashTool.execute as one step, and run() up to
\* its first event.
BashCommand ==
    /\ \E command \in Commands, outcome \in BashOutcomes :
          Assign(bash_execute(Cur, command, outcome).state)
    /\ UNCHANGED <<outside_loop, Config, stream, runs, calls_made, chunks_made>>

NextTracker ==
    \/ ReadText
    \/ WriteText
    \/ EditText
    \/ Glob
    \/ Grep
    \/ ListDirectory
    \/ BashCommand
    \/ Run

SpecTracker == InitFs /\ [][NextTracker]_vars

\* ----------------------------------------------------------- retry actions
\* A request enters the wrapper.
Request ==
    /\ retry_pc \in {"idle", "returned", "raised"}
    /\ requests < MaxRequests
    /\ requests' = requests + 1
    /\ RetryAssign([retry_pc |-> "calling", attempt |-> 0, invocations |-> <<>>,
                    sleeps |-> <<>>, raised |-> <<>>])
    /\ UNCHANGED <<outside_retry, adaptervars>>

\* The wrapper invokes the request, which returns.
InvokeReturns ==
    /\ retry_pc = "calling"
    /\ RetryAssign(on_return(RetryCur))
    /\ UNCHANGED <<outside_retry, adaptervars, requests>>

\* The wrapper invokes the request, which raises; the wrapper sleeps and
\* goes on, or raises.
InvokeRaises ==
    /\ retry_pc = "calling"
    /\ \E e \in RequestErrors : RetryAssign(on_error(RetryCur, e))
    /\ UNCHANGED <<outside_retry, adaptervars, requests>>

InitRetry == InitFs

NextRetry ==
    \/ Request
    \/ InvokeReturns
    \/ InvokeRaises

SpecRetry == InitRetry /\ [][NextRetry]_vars

\* --------------------------------------------------------- adapter actions
\* The agent loop calls llm.generate (AgentLoop._call_llm).
Generate ==
    /\ retry_pc \in {"idle", "returned", "raised"}
    /\ reaches_loop # "generator"
    /\ requests < MaxRequests
    /\ requests' = requests + 1
    /\ gen_stream' \in BOOLEAN
    /\ creates' = <<>>
    /\ reaches_loop' = "none"
    /\ RetryAssign([retry_pc |-> "calling", attempt |-> 0, invocations |-> <<>>,
                    sleeps |-> <<>>, raised |-> <<>>])
    /\ UNCHANGED outside_retry

\* The wrapper invokes generate.
GenerateStep ==
    /\ retry_pc = "calling"
    /\ \E o \in CreateOutcomes :
          LET g == generate(RetryCur, gen_stream, o)
          IN /\ RetryAssign(g.wrapper)
             /\ creates' = creates \o g.created
             /\ reaches_loop' = g.got
    /\ UNCHANGED <<outside_retry, requests, gen_stream>>

\* _handle_streaming_llm starts to iterate the generator.
ConsumeStream ==
    /\ reaches_loop = "generator"
    /\ \E o \in CreateOutcomes :
          LET h == handle_stream(o)
          IN /\ creates' = creates \o h.created
             /\ reaches_loop' = h.got
    /\ UNCHANGED <<outside_retry, retryvars, gen_stream>>

InitAdapterSession == InitFs

NextAdapter ==
    \/ Generate
    \/ GenerateStep
    \/ ConsumeStream

SpecAdapter == InitAdapterSession /\ [][NextAdapter]_vars

\* ------------------------------------------------------------ shell actions
ShellAssign(t) ==
    /\ shell' = t.shell
    /\ bash_calls' = t.calls
    /\ UNCHANGED <<corevars, metricvars, wire, anthropic_request>>

InCall(state) == bash_calls # <<>> /\ bash_calls[Len(bash_calls)].result = state

\* Nothing arrives as long as bash runs a command, or after it has ended.
NothingToRead == shell.queue = <<>> /\ (shell.busy \/ ~shell.alive)

\* BashTool.execute calls execute_command.
ExecuteCommand ==
    /\ ~InCall("waiting") /\ ~InCall("updating_cwd")
    /\ Len(bash_calls) < MaxCommands
    /\ \E command \in ShellCommands :
          ShellAssign(execute_command(shell, bash_calls, command))

\* The loop of execute_command reads the lines up to an end marker.
ReadToMarker ==
    /\ InCall("waiting")
    /\ shell.queue # <<>>
    /\ ShellAssign(loop_ends([shell EXCEPT !.queue = Tail(@)], bash_calls,
                             Head(shell.queue).output, Head(shell.queue).code, FALSE))

\* The loop of execute_command runs out of time.
TimeOut ==
    /\ InCall("waiting")
    /\ NothingToRead
    /\ ShellAssign(loop_ends(shell, bash_calls, <<>>, 0, TRUE))

\* The loop of _update_cwd reads the lines up to an end marker; an
\* EXIT_CODE= line is a line like any other to it.
ReadCwd ==
    /\ InCall("updating_cwd")
    /\ shell.queue # <<>>
    /\ LET item == Head(shell.queue)
           lines == item.output \o (IF item.has_code THEN <<"EXIT_CODE=">> ELSE <<>>)
       IN ShellAssign(update_cwd_ends([shell EXCEPT !.queue = Tail(@)], bash_calls, lines))

\* The loop of _update_cwd runs out of its two seconds.
CwdTimeOut ==
    /\ InCall("updating_cwd")
    /\ NothingToRead
    /\ ShellAssign(update_cwd_ends(shell, bash_calls, <<>>))

\* bash, when it is not running a command, runs the next one of its stdin.
ShellRuns ==
    /\ shell.alive /\ ~shell.busy /\ shell.stdin # <<>>
    /\ shell' = run_command(shell, Head(shell.stdin))
    /\ UNCHANGED <<bash_calls, corevars, metricvars, wire, anthropic_request>>

\* The command bash is running ends.
ShellCommandEnds ==
    /\ shell.alive /\ shell.busy
    /\ shell' = [shell EXCEPT !.busy = FALSE, !.queue = Append(@, Printed(<<>>, TRUE))]
    /\ UNCHANGED <<bash_calls, corevars, metricvars, wire, anthropic_request>>

NextShell ==
    \/ ExecuteCommand
    \/ ReadToMarker
    \/ TimeOut
    \/ ReadCwd
    \/ CwdTimeOut
    \/ ShellRuns
    \/ ShellCommandEnds

SpecShell == InitFs /\ [][NextShell]_vars

\* ---------------------------------------------------------- metrics actions
OpenScopes(kind) ==
    {k \in 1..Len(collector.metrics) :
        collector.metrics[k].kind = kind /\ collector.metrics[k].scope = "open"}

NoCallOpen == OpenScopes("api") = {} /\ OpenScopes("tool") = {}

\* run() enters track_prompt.
TrackPrompt ==
    /\ collector.current_prompt = 0
    /\ Len(collector.metrics) < MaxMetrics
    /\ collector' = track(collector, "prompt")
    /\ UNCHANGED <<tool_records, corevars, shellvars, wire, anthropic_request>>

\* The finally block of run(): prompt_tracker_ctx.__exit__(None, None, None),
\* after the loop has ended or while an exception passes through run().
LeavePrompt ==
    /\ collector.current_prompt # 0
    /\ NoCallOpen
    /\ \E by_exception \in BOOLEAN :
          collector' = context_exit(collector, collector.current_prompt, by_exception)
    /\ UNCHANGED <<tool_records, corevars, shellvars, wire, anthropic_request>>

\* _call_llm or _handle_streaming_llm enters track_api_call.
TrackApiCall ==
    /\ collector.current_prompt # 0
    /\ NoCallOpen
    /\ Len(collector.metrics) < MaxMetrics
    /\ collector' = track(collector, "api")
    /\ UNCHANGED <<tool_records, corevars, shellvars, wire, anthropic_request>>

\* The LLM call returns, or raises: the with block, or the finally block
\* of _handle_streaming_llm, leaves the context manager.
LeaveApiCall ==
    /\ \E k \in OpenScopes("api"), by_exception \in BOOLEAN :
          collector' = context_exit(collector, k, by_exception)
    /\ UNCHANGED <<tool_records, corevars, shellvars, wire, anthropic_request>>

\* _execute_and_record enters track_tool_call.
TrackToolCall ==
    /\ collector.current_prompt # 0
    /\ NoCallOpen
    /\ Len(collector.metrics) < MaxMetrics
    /\ collector' = track(collector, "tool")
    /\ UNCHANGED <<tool_records, corevars, shellvars, wire, anthropic_request>>

\* The tool runs and its result is recorded.
RecordTool ==
    /\ \E k \in OpenScopes("tool"), is_remote \in BOOLEAN, raises \in BOOLEAN :
          \E result \in IF is_remote THEN RemoteResults ELSE LocalResults :
             LET t == record_tool(collector, tool_records, k, is_remote, result, raises)
             IN collector' = t.collector /\ tool_records' = t.records
    /\ UNCHANGED <<corevars, shellvars, wire, anthropic_request>>

NextMetrics ==
    \/ TrackPrompt
    \/ LeavePrompt
    \/ TrackApiCall
    \/ LeaveApiCall
    \/ TrackToolCall
    \/ RecordTool

SpecMetrics == InitFs /\ [][NextMetrics]_vars

\* ----------------------------------------------------------- stream actions
ContentDeltas == {ContentDelta(<<"x">>), ContentDelta(<<"y">>)}
ToolCallDeltas ==
    {ToolCallDelta(index, id, type, name, arguments) :
        index \in {0, 1}, id \in {<<>>, <<"i">>}, type \in {<<>>, <<"function">>},
        name \in {<<>>, <<"n">>}, arguments \in {<<>>, <<"a">>, <<"b">>}}

\* The provider sends a chunk with a content delta.
ReceiveContent ==
    /\ ~wire.done /\ Len(wire.arrived) < MaxDeltas
    /\ \E delta \in ContentDeltas : wire' = on_chunk(wire, delta)
    /\ UNCHANGED <<corevars, shellvars, metricvars, anthropic_request>>

\* The provider sends a chunk with a tool-call delta.
ReceiveToolCall ==
    /\ ~wire.done /\ Len(wire.arrived) < MaxDeltas
    /\ \E delta \in ToolCallDeltas : wire' = on_chunk(wire, delta)
    /\ UNCHANGED <<corevars, shellvars, metricvars, anthropic_request>>

\* The stream ends.
EndOfStream ==
    /\ ~wire.done
    /\ wire' = on_stream_end(wire)
    /\ UNCHANGED <<corevars, shellvars, metricvars, anthropic_request>>

NextWire == ReceiveContent \/ ReceiveToolCall \/ EndOfStream

SpecWire == InitFs /\ [][NextWire]_vars

\* ------------------------------------------------------------- HTTP server
\* _execute_tool of the tool-execution server: every request builds a new
\* registry with read_tracker=None and calls the tool's execute.
InitHttp ==
    /\ InitParts
    /\ has_tracker = FALSE
    /\ user_queries = {TextQuery}
    /\ stream = FALSE
    /\ yolo_mode = FALSE
    /\ has_callback = FALSE
    /\ remote = FALSE
    /\ model_calls = ReadCalls

SpecHttp == InitHttp /\ [][NextEdit]_vars

\* ------------------------------------------------------------- abandonment
\* The consumer closes the generator while it is suspended at a yield before
\* agent_done: GeneratorExit is raised at the yield, `except Exception` does
\* not catch it, and the finally block leaves the prompt's context.
Close ==
    /\ pc \notin {"idle", "agent_done"}
    /\ pc' = "idle"
    /\ prompt_scope' = "closed"
    /\ UNCHANGED <<messages, prompt_counter, current_iteration, trajectory, snapshot, iteration,
                   final_response, content_parts, llm_response, call_idx, confirmed,
                   bash_requires_conf, shell_input, events, llm_calls, calls_log,
                   outside_loop, Config, stream, runs, calls_made, chunks_made>>

NextAbandon == Next \/ Close

SpecAbandon == InitLive /\ [][NextAbandon]_vars

\* -------------------------------------------------------- Anthropic actions
\* generate() of an AnthropicLLM converts the ledger it is given; the
\* parent's conversion may raise, and then nothing is sent.
AnthropicConvert ==
    /\ pc = "llm_start"
    /\ convert_messages(messages).ok
    /\ anthropic_request' =
          [from |-> messages, data |-> anthropic_convert_messages(messages)]
    /\ UNCHANGED <<corevars, shellvars, metricvars, wire>>

NextAnthropic == NextResumable \/ AnthropicConvert

SpecAnthropic == InitResumable /\ [][NextAnthropic]_vars

\* =============================================================== properties
Last(seq) == seq[Len(seq)]
Range(seq) == {seq[k] : k \in 1..Len(seq)}
EventsOfType(type) == {j \in 1..Len(events) : events[j].type = type}
CommandOf(entry) == JsonLoads(entry.arguments).command

\* The generator is between two iterations, or the run is over.
IterationEnded == pc \in {"llm_start", "error", "agent_done", "idle"}

Answered(msgs, i, id) ==
    \E j \in (i + 1)..Len(msgs) : msgs[j].role = "tool" /\ msgs[j].tool_call_id = id

LedgerClosed(msgs) ==
    \A i \in 1..Len(msgs) :
        msgs[i].role = "assistant" =>
            \A k \in 1..Len(msgs[i].tool_calls) :
                Answered(msgs, i, msgs[i].tool_calls[k].id)

Sanitized(m) ==
    /\ m.role = "assistant"
    /\ m.tool_calls = <<>>
    /\ \E k \in 1..Len(m.content) : m.content[k] = "Tool calls attempted:"

\* C1: at the end of every iteration, each tool-call id carried by an
\* assistant message of the ledger is answered by a later tool message; an
\* assistant message that was sanitized carries no tool calls any more.
C1_LedgerClosed == IterationEnded => LedgerClosed(messages)

\* A run ended with, in the ledger, a call that was denied and answered and
\* an assistant message that was sanitized.
C1_Witness ==
    /\ pc = "agent_done"
    /\ \E i \in 1..Len(messages) :
          messages[i].role = "assistant" /\ messages[i].tool_calls # <<>>
    /\ \E i \in 1..Len(messages) : Sanitized(messages[i])
    /\ \E i \in 1..Len(messages) :
          messages[i].content = <<"Tool execution rejected by user">>

\* C2: with YOLO mode off, a call of a tool that requires confirmation is
\* executed only with a callback configured, after tool_confirmation_required
\* was yielded for that call and the callback answered true; tool_start for
\* such a call directly follows its tool_confirmation_required.
C2_ConfirmationGate ==
    ~yolo_mode =>
        /\ \A n \in DOMAIN calls_log :
              (calls_log[n].requires /\ calls_log[n].executed) =>
                  (has_callback /\ calls_log[n].asked /\ calls_log[n].answered)
        /\ (pc = "tool_start" /\ Last(calls_log).requires) =>
              /\ has_callback
              /\ Last(calls_log).answered
              /\ Len(events) >= 2
              /\ events[Len(events) - 1].type = "tool_confirmation_required"
              /\ events[Len(events) - 1].tool_call_id = Last(events).tool_call_id

\* A write_file call was confirmed by the user and executed.
C2_Witness ==
    /\ ~yolo_mode
    /\ pc = "tool_done"
    /\ calls_log # <<>>
    /\ Last(calls_log).requires
    /\ Last(calls_log).asked
    /\ Last(calls_log).executed

\* C5: the iterations value of agent_done is at most max_iterations, and
\* when it equals max_iterations the final_response is not empty.
C5_IterationsBounded ==
    \A j \in EventsOfType("agent_done") :
        /\ events[j].iteration <= max_iterations
        /\ events[j].iteration = max_iterations => events[j].text # <<>>

\* The cap ended a run whose last response still asked for tools: agent_done
\* reports max_iterations and the sentinel.
C5_Witness ==
    /\ pc = "agent_done"
    /\ Last(events).iteration = max_iterations
    /\ Last(events).text = Sentinel
    /\ llm_response.tool_calls # <<>>

\* C6: a run that is consumed to the end terminates; it issues at most
\* max_iterations LLM requests and yields agent_done exactly once.
C6_Terminates ==
    /\ [](llm_calls <= max_iterations)
    /\ [](Cardinality(EventsOfType("agent_done")) <= 1)
    /\ []((pc = "idle" /\ runs > 0) => Cardinality(EventsOfType("agent_done")) = 1)
    /\ ((pc # "idle") ~> (pc = "idle"))

\* A model that asked for tools in every response was stopped by the cap.
C6_Witness ==
    /\ pc = "idle"
    /\ llm_calls = max_iterations
    /\ llm_response.tool_calls # <<>>
    /\ \A j \in EventsOfType("llm_done") : events[j].calls # <<>>

IsToolEvent(e) == e.type \in {"tool_confirmation_required", "tool_start", "tool_done"}

\* The order of the events of one run, but for what follows an llm_chunk.
OrderedAt(j) ==
    LET e == events[j] IN
    /\ e.type \in {"llm_chunk", "llm_done"} =>
          /\ j > 1
          /\ events[j - 1].type \in {"llm_start", "llm_chunk"}
          /\ events[j - 1].iteration = e.iteration
    /\ e.type = "llm_start" =>
          \/ (j = 1 /\ e.iteration = 1)
          \/ /\ j > 1
             /\ events[j - 1].type = "tool_done"
             /\ e.iteration = events[j - 1].iteration + 1
    /\ IsToolEvent(e) =>
          \E i \in 1..(j - 1) :
              /\ events[i].type = "llm_done"
              /\ events[i].iteration = e.iteration
              /\ e.tool_call_id \in Range(events[i].calls)
              /\ \A m \in (i + 1)..(j - 1) : IsToolEvent(events[m])
    /\ e.type = "agent_done" => j = Len(events)
    /\ (e.type = "error" /\ j < Len(events)) =>
          /\ j + 1 = Len(events)
          /\ events[j + 1].type = "agent_done"

\* C7: the events of one run are ordered.  An llm_chunk follows the llm_start
\* or an llm_chunk of its iteration and is followed by an llm_chunk, the
\* llm_done of that iteration or error; an llm_done follows the llm_start or
\* an llm_chunk of its iteration; the events of a tool call follow, with only
\* tool events between, the llm_done of their iteration that carries the
\* call's id; an llm_start is the first event or follows a tool_done;
\* agent_done is the last event, and error is followed by agent_done only.
C7_EventOrder ==
    \A j \in 1..Len(events) :
        LET e == events[j] IN
        /\ OrderedAt(j)
        /\ (e.type = "llm_chunk" /\ j < Len(events)) =>
              /\ events[j + 1].type \in {"llm_chunk", "llm_done", "error"}
              /\ events[j + 1].iteration = e.iteration

\* The statement of C7 as written: in a finished run every llm_chunk is
\* followed by the llm_done of its iteration.
C7_ChunkBeforeLlmDone ==
    /\ \A j \in 1..Len(events) : OrderedAt(j)
    /\ (events # <<>> /\ Last(events).type = "agent_done") =>
          \A j \in EventsOfType("llm_chunk") :
              \E k \in (j + 1)..Len(events) :
                  /\ events[k].type = "llm_done"
                  /\ events[k].iteration = events[j].iteration

\* A streamed run with a confirmed tool call in its first iteration and a
\* stream that failed after a chunk in its second.
C7_Witness ==
    /\ pc = "agent_done"
    /\ EventsOfType("llm_chunk") # {}
    /\ EventsOfType("tool_confirmation_required") # {}
    /\ EventsOfType("tool_start") # {}
    /\ EventsOfType("error") # {}

\* C8: a bash command that matches a disallow pattern is never written to
\* the shell, and the call's result is the policy error, whatever else the
\* command matches and however the call was approved.
C8_DisallowedNeverRun ==
    /\ \A c \in shell_input : ~MatchesDisallowed(c)
    /\ ( /\ pc = "tool_done"
         /\ calls_log # <<>>
         /\ Last(calls_log).executed
         /\ MatchesDisallowed(CommandOf(Last(calls_log))) ) =>
            Last(messages).content = <<"Error: Command rejected by policy">>

\* The user confirmed a command that matches both lists; it was rejected.
C8_Witness ==
    /\ pc = "tool_done"
    /\ calls_log # <<>>
    /\ Last(calls_log).answered
    /\ Last(calls_log).executed
    /\ CommandOf(Last(calls_log)) = "ls; rm"
    /\ shell_input = {}

\* C9: with YOLO mode off, a bash call whose command matches no disallow
\* pattern goes through confirmation exactly when its command matches no
\* allow pattern, and a command that matches neither list is run only after
\* the user confirmed it, whatever was dispatched before.
C9_OwnCommandDecides ==
    ~yolo_mode =>
        \A n \in DOMAIN calls_log :
            LET e == calls_log[n]
                c == CommandOf(e)
            IN ~MatchesDisallowed(c) =>
                  /\ e.asked <=> ~MatchesAllowed(c)
                  /\ (~MatchesAllowed(c) /\ e.executed) => e.answered

\* An edit of an existing regular file of the workspace.
EditsWorkspaceFile(r) ==
    /\ r.tool = "edit_file"
    /\ check_absolute_path(r.path)
    /\ check_within_workspace(resolve_path(r.path))
    /\ IsFile(FsCur, resolve_path(r.path))

C4_WorkspaceContained ==
    /\ \A p \in accessed \cup fs_result.listed : check_within_workspace(p)
    /\ \A f \in FsFiles \ {WsA, WsB} : files[f] = File(<<"x">>)
    /\ ( /\ fs_result.tool # "none"
         /\ fs_result.path # NoPath
         /\ fs_result.path.absolute
         /\ ~check_within_workspace(resolve_path(fs_result.path)) ) =>
            fs_result.status = "outside_workspace"
    /\ fs_result.status = "outside_workspace" =>
          /\ ~fs_result.changed
          /\ accessed = {}

\* C10: the wrapper invokes the request at most max_retries times; every
\* invocation but the last one failed with a timeout or a rate limit; an
\* error of another kind ends the request at once; the wrapper slept once
\* after each failure it retried and never after the failure it raised;
\* a retryable error is raised only by the last allowed attempt.
C10_RetryBound ==
    /\ Len(invocations) <= max_retries
    /\ \A k \in 1..(Len(invocations) - 1) :
          invocations[k] \in {"timeout", "rate_limit"}
    /\ retry_pc = "calling" =>
          /\ Len(invocations) < max_retries
          /\ Len(sleeps) = Len(invocations)
          /\ \A k \in 1..Len(invocations) :
                invocations[k] \in {"timeout", "rate_limit"}
    /\ retry_pc \in {"returned", "raised"} =>
          /\ Len(invocations) >= 1
          /\ Len(sleeps) = Len(invocations) - 1
    /\ retry_pc = "returned" => Last(invocations) = "ok"
    /\ retry_pc = "raised" =>
          \/ Last(invocations) = "api_error"
          \/ /\ Last(invocations) \in {"timeout", "rate_limit"}
             /\ Len(invocations) = max_retries

\* The third attempt timed out and its error was raised, after a backoff
\* sleep and a Retry-After sleep.
C10_Witness ==
    /\ retry_pc = "raised"
    /\ invocations = <<"timeout", "rate_limit", "timeout">>
    /\ sleeps = <<1 * Tenths, 7 * Tenths>>

\* C11: when a request reaches the agent loop as an exception, its last
\* call of create() failed with an error that is not retryable, or it was
\* the last of max_retries calls: a single timeout or rate limit does not
\* reach the loop, with streaming or without.
C11_RetryableFailureRetried ==
    reaches_loop = "exception" =>
        \/ Last(creates) = "api_error"
        \/ Len(creates) = max_retries

\* The user messages of the ledger: the allocations of the session so far.
UserMessages == {i \in 1..Len(messages) : messages[i].role = "user"}

\* C12: the prompt id allocated for the n-th user message of a session is
\* prompt_00n (the ids are prompt_001, prompt_002, ... with no gap and no
\* repeat), and the iteration counter is 0 when a user message was appended.
C12_PromptIdsSequential ==
    /\ prompt_counter >= 1 =>
          prompt_id(prompt_counter) = prompt_id(Cardinality(UserMessages))
    /\ Last(messages).role = "user" => current_iteration = 0

\* C13: the ledger has exactly one system message, and it is the first
\* message, in every state of a session that appends, sanitizes and resumes.
C13_OneSystemMessage ==
    /\ Len(messages) >= 1
    /\ messages[1] = SystemMessage
    /\ \A i \in 2..Len(messages) : messages[i].role # "system"

\* A session that was resumed from a snapshot with a sanitized assistant
\* message and a tool message.
C13_Witness ==
    /\ runs >= 1
    /\ prompt_counter = 0
    /\ \E i \in 1..Len(messages) : messages[i].role = "tool"
    /\ \E i \in 1..Len(messages) : Sanitized(messages[i])

\* The generator is at the tool_done of a registered tool's call whose
\* arguments are not valid JSON.
InvalidCallDone ==
    /\ pc = "tool_done"
    /\ CurrentCall(Cur).name \in RegisteredTools
    /\ ~JsonLoads(CurrentCall(Cur).arguments).ok

RetryMessage(tc) ==
    Msg("user", <<"retry with valid JSON", tc.name, ToString(tc.id)>>, <<>>, NoId)

\* C14: when a tool call's arguments are not valid JSON, at its tool_done
\* the ledger ends with the user message that asks to retry that call, an
\* assistant message carries the call as text with its tool_calls cleared,
\* no tool message was appended, tool_done has confirmed = FALSE and no error
\* event was emitted.
C14_InvalidArgumentsSanitized ==
    InvalidCallDone =>
        LET tc == CurrentCall(Cur) IN
        /\ Last(messages) = RetryMessage(tc)
        /\ \E i \in 1..Len(messages) :
              /\ Sanitized(messages[i])
              /\ \E k \in 1..Len(messages[i].content) :
                    messages[i].content[k] = ToString(tc.id)
        /\ Last(events).type = "tool_done"
        /\ Last(events).tool_call_id = tc.id
        /\ ~Last(events).confirmed
        /\ \A j \in 1..Len(events) : events[j].type # "error"

\* The generator is inside the for loop over the response's tool calls.
InToolLoop == pc \in {"tool_confirmation_required", "tool_start", "tool_done"}

LastOfType(type) == Max(EventsOfType(type))
LastAssistant == Max({i \in 1..Len(messages) : messages[i].role = "assistant"})

\* The number of tool calls finished between event p and event j.
DonesBetween(p, j) ==
    Cardinality({m \in (p + 1)..(j - 1) : events[m].type = "tool_done"})

\* The calls for which the executor appends a tool message.
HasLedgerEntry(tc) == tc.name \notin RegisteredTools \/ JsonLoads(tc.arguments).ok

IdsOfCalls(tcs) == [k \in 1..Len(tcs) |-> tcs[k].id]
IdsOfMessages(msgs) == [k \in 1..Len(msgs) |-> msgs[k].tool_call_id]

\* C15: the tool calls of one response are executed one at a time in the
\* order of the response: the events after llm_done are the events of call 1
\* up to its tool_done, then those of call 2, and so on, and the tool
\* messages appended after the assistant message are those of the finished
\* calls, in the order of tool_calls.
C15_ToolCallsInOrder ==
    InToolLoop =>
        LET p == LastOfType("llm_done")
            tcs == llm_response.tool_calls
            done == DonesBetween(p, Len(events) + 1)
        IN /\ \A j \in (p + 1)..Len(events) :
                 /\ IsToolEvent(events[j])
                 /\ DonesBetween(p, j) < Len(tcs)
                 /\ events[j].tool_call_id = tcs[DonesBetween(p, j) + 1].id
           /\ call_idx = IF pc = "tool_done" THEN done ELSE done + 1
           /\ IdsOfMessages(SelectSeq(SubSeq(messages, LastAssistant + 1, Len(messages)),
                                      LAMBDA m : m.role = "tool"))
                  = IdsOfCalls(SelectSeq(SubSeq(tcs, 1, done), HasLedgerEntry))

\* Two calls with different ids of one response are finished, the first one
\* after a confirmation, and both have their tool message.
C15_Witness ==
    /\ pc = "tool_done"
    /\ call_idx = 2
    /\ llm_response.tool_calls[1].id # llm_response.tool_calls[2].id
    /\ \E j \in 1..Len(events) : events[j].type = "tool_confirmation_required"
    /\ Len(SelectSeq(SubSeq(messages, LastAssistant + 1, Len(messages)),
                     LAMBDA m : m.role = "tool")) = 2

\* Every LLM call of the run returned a response with tool calls.
AlwaysToolCalls ==
    /\ \A j \in 1..Len(events) : events[j].type # "error"
    /\ \A j \in EventsOfType("llm_done") : events[j].calls # <<>>

\* The tool_done events of one iteration, as the sequence of their ids.
ToolDoneIds(it) ==
    IdsOfMessages(SelectSeq(events,
        LAMBDA e : e.type = "tool_done" /\ e.iteration = it))

\* C16: when every response of a run has tool calls, at agent_done the run
\* has made exactly max_iterations LLM calls, each of the responses (the last
\* one included) has had all its tool calls brought to tool_done, and
\* agent_done carries iterations = max_iterations and the sentinel text.
C16_CapReached ==
    (pc = "agent_done" /\ AlwaysToolCalls) =>
        /\ llm_calls = max_iterations
        /\ Cardinality(EventsOfType("llm_start")) = max_iterations
        /\ Cardinality(EventsOfType("llm_done")) = max_iterations
        /\ \A j \in EventsOfType("llm_done") :
              ToolDoneIds(events[j].iteration) = events[j].calls
        /\ Last(events).type = "agent_done"
        /\ Last(events).iteration = max_iterations
        /\ Last(events).text = Sentinel

\* A run of max_iterations responses with tool calls has ended.
C16_Witness ==
    /\ pc = "agent_done"
    /\ AlwaysToolCalls
    /\ Cardinality(EventsOfType("llm_done")) = max_iterations
    /\ \E j \in EventsOfType("tool_done") : events[j].iteration = max_iterations

\* What holds of the events once the LLM call or the stream has raised.
ErrorEventIsLast(j) ==
    /\ EventsOfType("error") = {j}
    /\ EventsOfType("llm_start") # {}
    /\ LastOfType("llm_start") < j
    /\ events[j].iteration = events[LastOfType("llm_start")].iteration
    /\ \A m \in EventsOfType("llm_done") : events[m].iteration < events[j].iteration
    /\ \A m \in (LastOfType("llm_start") + 1)..(j - 1) : events[m].type = "llm_chunk"
    /\ j < Len(events) => (j + 1 = Len(events) /\ events[j + 1].type = "agent_done")

\* A step on the error path: into error, out of error, and after the
\* agent_done that follows it.
ErrorPathStep ==
    /\ (pc # "error" /\ pc' = "error") =>
          /\ pc \in {"llm_start", "llm_chunk"}
          /\ messages' = messages
          /\ Last(events').iteration = iteration
    /\ (pc = "error") => (pc' = "agent_done" /\ messages' = messages)
    /\ (pc = "agent_done" /\ EventsOfType("error") # {}) =>
          (pc' = "idle" /\ messages' = messages)

\* C17: when the LLM call or the stream raises, the run has exactly one
\* error event, with the number of the iteration that failed; no llm_start
\* and no llm_done of that iteration follows it; the raising step and the
\* steps after it append nothing to the ledger; the generator goes from error
\* to agent_done and from there to its end.
C17_ErrorStopsLoop ==
    /\ [](\A j \in EventsOfType("error") : ErrorEventIsLast(j))
    /\ [][ErrorPathStep]_vars

\* The stream of the second iteration raised after a chunk, and the run has
\* ended with agent_done.
C17_Witness ==
    /\ pc = "agent_done"
    /\ \E j \in EventsOfType("error") :
          /\ events[j].iteration = 2
          /\ events[j - 1].type = "llm_chunk"

\* The ledger a new Context Engine holds when it is built from the snapshot
\* of this ledger.
Resumed(msgs) ==
    new_context_engine(Cur, load_conversation_history(convert_messages(msgs).data)).messages

\* C18: after a run, the snapshot of the ledger loaded into a new Context
\* Engine gives the same ledger, message for message (role, content,
\* tool_calls, tool_call_id).
C18_ResumeRoundTrip ==
    (pc = "idle" /\ runs >= 1 /\ convert_messages(messages).ok) =>
        Resumed(messages) = messages

\* C19: an edit_file call that returns an error leaves every file as it was.
C19_ErrorLeavesFileUnchanged ==
    [][(fs_result'.tool = "edit_file" /\ fs_result'.status # "ok") =>
          files' = files]_vars

\* The text an edit works on: the file decoded, its tabs expanded.
TextOf(fs, resolved) ==
    expandtabs(read_with_encoding_fallback(fs[resolved].content).content)

\* The positions of text where sub occurs.
Occurrences(text, sub) == {k \in 1..Len(text) : IsAt(text, sub, k)}

\* text with new in place of the Len(old) characters at position k.
Splice(text, k, old, new) ==
    SubSeq(text, 1, k - 1) \o new \o SubSeq(text, k + Len(old), Len(text))

\* The line numbers of a set of positions, in the order of the positions.
RECURSIVE LinesOf(_, _)
LinesOf(text, at) ==
    IF at = {} THEN <<>>
    ELSE LET k == CHOOSE k \in at : \A m \in at : k <= m
         IN <<LineOf(text, k)>> \o LinesOf(text, at \ {k})

\* The call got as far as counting the occurrences (steps 1 to 9 passed).
Counted(r) ==
    /\ r.tool = "edit_file"
    /\ r.status \in {"ok", "string_not_found", "not_unique", "too_large", "write_failed"}

\* What the steps 10 and 11 of a call with replace_all = FALSE do.
EditsOneOccurrence(before, after, r) ==
    LET text == TextOf(before, r.resolved)
        old == expandtabs(r.args.old_string)
        new == expandtabs(r.args.new_string)
        at == Occurrences(text, old)
    IN /\ r.status = "ok" =>
             /\ Cardinality(at) = 1
             /\ \A k \in at : TextOf(after, r.resolved) = Splice(text, k, old, new)
       /\ Cardinality(at) >= 2 =>
             /\ r.status = "not_unique"
             /\ r.lines = LinesOf(text, at)
             /\ after = before

\* text read from position k on, with new in place of every old it meets.
RECURSIVE ReplacedFrom(_, _, _, _)
ReplacedFrom(text, old, new, k) ==
    IF k > Len(text) THEN <<>>
    ELSE IF IsAt(text, old, k) THEN new \o ReplacedFrom(text, old, new, k + Len(old))
    ELSE <<text[k]>> \o ReplacedFrom(text, old, new, k + 1)

\* What step 11 of a call with replace_all = TRUE does.
EditsEveryOccurrence(before, after, r) ==
    r.status = "ok" =>
        TextOf(after, r.resolved) =
            ReplacedFrom(TextOf(before, r.resolved), expandtabs(r.args.old_string),
                         expandtabs(r.args.new_string), 1)

\* C20: with replace_all = FALSE an edit succeeds only when old_string
\* occurs at exactly one position of the tab-expanded content, and it
\* replaces that occurrence; when old_string occurs at two or more positions
\* the call is rejected and the error lists the line of each of them; with
\* replace_all = TRUE a successful edit replaces every occurrence.
C20_UniqueOccurrence ==
    [][Counted(fs_result') =>
          IF fs_result'.args.replace_all
          THEN EditsEveryOccurrence(files, files', fs_result')
          ELSE EditsOneOccurrence(files, files', fs_result')]_vars

\* The lines of a text, without their newlines, each with its number.
NumberedLines(text) ==
    LET lines == splitlines(text)
        bare(l) == IF l[Len(l)] = Newline THEN SubSeq(l, 1, Len(l) - 1) ELSE l
    IN [i \in 1..Len(lines) |-> [num |-> i, line |-> bare(lines[i])]]

\* A read_file call that follows a successful write_file of the same file.
ReadsBackWrite ==
    /\ fs_result.tool = "write_file"
    /\ fs_result.status = "ok"
    /\ fs_result'.tool = "read_file"
    /\ fs_result'.resolved = fs_result.resolved

\* C21: a read_file with no line range that follows a successful
\* write_file(p, C) of the same path succeeds and returns the lines of C,
\* each with its line number.
C21_WriteReadRoundTrip ==
    [][ReadsBackWrite =>
          /\ fs_result'.status = "ok"
          /\ fs_result'.text =
                 NumberedLines(decode(files[fs_result.resolved].content, "utf-8").text)]_vars

\* What echo $FOO; pwd prints after the commands sent before call i.
Visible(i) ==
    <<IF \E j \in 1..(i - 1) : bash_calls[j].command = "export" THEN "bar" ELSE "",
      IF \E j \in 1..(i - 1) : bash_calls[j].command = "cd" THEN "sub" ELSE "ws">>

NoExitBefore(i) == \A j \in 1..(i - 1) : bash_calls[j].command # "exit"

IdLess(a, b) ==
    \E k \in 2..Len(a) : /\ k <= Len(b)
                         /\ a[k] < b[k]
                         /\ \A m \in 2..(k - 1) : a[m] = b[m]

\* The order of the pairs (prompt_id, iteration) of two lines; a line
\* without an iteration is ordered by its prompt_id alone.
PairLeq(e, f) ==
    \/ IdLess(e.prompt_id, f.prompt_id)
    \/ /\ e.prompt_id = f.prompt_id
       /\ \/ NoIteration \in {e.iteration, f.iteration}
          \/ e.iteration <= f.iteration

\* The file is only appended to.
AppendOnly ==
    /\ Len(trajectory') >= Len(trajectory)
    /\ SubSeq(trajectory', 1, Len(trajectory)) = trajectory

\* C23: along the trajectory file of a session the pair (prompt_id,
\* iteration) never decreases in append order, and the lines written stay
\* as they are, also across a sanitization and a resume of the session.
C23_TrajectoryMonotone ==
    /\ [](\A i, j \in 1..Len(trajectory) :
             i < j => PairLeq(trajectory[i], trajectory[j]))
    /\ [][AppendOnly]_vars

\* The tool message at index j answers a tool call that an assistant
\* message before it carries.
AnswersCall(msgs, j) ==
    \E i \in 1..(j - 1) :
        /\ msgs[i].role = "assistant"
        /\ \E k \in 1..Len(msgs[i].tool_calls) :
              msgs[i].tool_calls[k].id = msgs[j].tool_call_id

\* C24: in every reachable state each tool message of the ledger has the
\* id of a tool call that some assistant message before it carries.
C24_NoOrphanToolMessage ==
    \A j \in 1..Len(messages) : messages[j].role = "tool" => AnswersCall(messages, j)

\* C25: the wrapper sleeps once after each failure it retries: for the
\* retry_after of a RateLimit error that carries one (0 included), and
\* otherwise for initial_delay * exponential_base^attempt seconds, with
\* attempt counted from 0; a RateLimit with retry_after = 0.1 followed by a
\* success is two attempts, one sleep of 0.1 s, and the result returned.
C25_SleepPerRetry ==
    /\ retry_pc = "calling" => Len(sleeps) = Len(raised)
    /\ retry_pc \in {"returned", "raised"} => Len(sleeps) = Len(invocations) - 1
    /\ \A k \in 1..Len(sleeps) :
          sleeps[k] = wait_time_any(raised[k], k - 1)
    /\ (raised = <<Outcome("rate_limit", 1)>> /\ invocations = <<"rate_limit", "ok">>)
          => (retry_pc = "returned" /\ sleeps = <<1>>)

\* C26: a metric whose tracking scope was left has end_time and duration
\* set, and when the scope was left by an exception the metric has
\* success = false and the error recorded.
C26_ScopeExitRecorded ==
    \A k \in 1..Len(collector.metrics) :
        LET m == collector.metrics[k] IN
        /\ m.scope # "open" => (m.end_time /\ m.duration)
        /\ m.scope = "exception" => (~m.success /\ m.error # "")

\* C27: the success flag recorded for an executed tool call, in the
\* tool_result event and in the tool metric, is false exactly when the
\* result content begins with 'Error:' or its display carries the cross
\* mark, for local and for remote execution.
C27_SuccessFlag ==
    \A i \in 1..Len(tool_records) :
        LET r == tool_records[i]
            failed == \/ r.content[1] = "Error:"
                      \/ \E k \in 1..Len(r.display) : r.display[k] = Cross
        IN /\ r.tool_success = ~failed
           /\ collector.metrics[r.metric].success = ~failed

\* C28: the Read Tracker changes only in a step in which read_file returns
\* a success result, and then only by gaining the resolved path that was
\* read: a failed read_file, write_file, edit_file, glob, grep,
\* list_directory, a bash command and the start of a user query leave it as
\* it is.
C28_TrackerFrame ==
    [][read_files' # read_files =>
          /\ fs_result'.tool = "read_file"
          /\ fs_result'.status = "ok"
          /\ read_files' = read_files \cup {fs_result'.resolved}]_vars

\* A file was read, and the tracker still holds it after a user query has
\* started, a bash command has run, and the file was edited.
C28_Witness ==
    /\ read_files = {WsA}
    /\ runs = 1
    /\ shell_input # {}
    /\ fs_result.tool = "edit_file"
    /\ fs_result.status = "ok"

\* The fragments of a field that the deltas of one index carry, one after
\* the other in arrival order.
RECURSIVE Fragments(_, _, _)
Fragments(deltas, idx, field) ==
    IF deltas = <<>> THEN <<>>
    ELSE (IF Head(deltas).kind = "tool_call" /\ Head(deltas).index = idx
          THEN Head(deltas)[field] ELSE <<>>)
         \o Fragments(Tail(deltas), idx, field)

RECURSIVE ContentOf(_)
ContentOf(deltas) ==
    IF deltas = <<>> THEN <<>>
    ELSE (IF Head(deltas).kind = "content" THEN Head(deltas).content ELSE <<>>)
         \o ContentOf(Tail(deltas))

\* C29: the assembled response's content is the concatenation of the
\* content deltas in arrival order, and each tool call has, in each of id,
\* type, name and arguments, the concatenation in arrival order of the
\* fragments of the deltas with its index (the type function when they
\* carry none); there is one tool call for each index that arrived.
C29_StreamReassembly ==
    wire.done =>
        /\ wire.response.content = ContentOf(wire.arrived)
        /\ {tc.index : tc \in Range(wire.response.tool_calls)}
               = {d.index : d \in {e \in Range(wire.arrived) : e.kind = "tool_call"}}
        /\ \A k \in 1..Len(wire.response.tool_calls) :
              LET tc == wire.response.tool_calls[k]
                  types == Fragments(wire.arrived, tc.index, "type")
              IN /\ tc.id = Fragments(wire.arrived, tc.index, "id")
                 /\ tc.type = (IF types = <<>> THEN <<"function">> ELSE types)
                 /\ tc.name = Fragments(wire.arrived, tc.index, "name")
                 /\ tc.arguments = Fragments(wire.arrived, tc.index, "arguments")

\* C30: the Anthropic conversion of a ledger has the cache_control marker
\* on its last message exactly when the ledger's last message is a tool
\* message, and on no other message; without the marker each message is
\* what the OpenAI-compatible conversion makes of it.
C30_CacheControlOnLastTool ==
    LET from == anthropic_request.from
        data == anthropic_request.data
    IN /\ Len(data) = Len(from)
       /\ \A i \in 1..Len(data) :
             /\ "cache_control" \in data[i].keys
                    <=> (i = Len(from) /\ from[i].role = "tool")
             /\ [data[i] EXCEPT !.keys = @ \ {"cache_control"}] = convert_message(from[i])

\* A ledger that ends with a tool message was converted, and one that ends
\* with the user's multimodal query.
C30_Witness ==
    /\ Len(anthropic_request.from) >= 4
    /\ Last(anthropic_request.from).role = "tool"
    /\ "cache_control" \in Last(anthropic_request.data).keys
    /\ \E i \in 1..Len(anthropic_request.from) : anthropic_request.from[i].content = BlockQuery

\* A step in which the generator is closed at a yield before agent_done.
Abandoned == pc \notin {"idle", "agent_done"} /\ pc' = "idle"

\* C31: when the consumer abandons the event stream before agent_done, the
\* prompt's metrics scope is closed and the snapshot file holds the ledger
\* of that moment.
C31_AbandonRunsCleanup ==
    [][Abandoned => (/\ prompt_scope' = "closed"
                     /\ snapshot' = convert_messages(messages').data)]_vars

\* The result recorded for a call whose execute, or whose argument binding,
\* raised.
RaisedResult == <<"Tool execution error">>

\* C32: the step that runs a tool, whether the tool returns or raises,
\* appends one tool message for the call and yields tool_done for it and
\* nothing else (no error event); and after tool_done the next tool call of
\* the response is dispatched, the loop going on when there is none.
C32_ToolFailureRecovered ==
    /\ [][(pc = "tool_start" /\ pc' # "tool_start") =>
            LET tc == CurrentCall(Cur)
            IN /\ pc' = "tool_done"
               /\ events' = Append(events,
                     Event("tool_done", iteration, tc.id, confirmed, <<>>, <<>>))
               /\ Len(messages') = Len(messages) + 1
               /\ Last(messages').role = "tool"
               /\ Last(messages').tool_call_id = tc.id]_vars
    /\ [][(pc = "tool_done" /\ pc' # "tool_done") =>
            IF call_idx < Len(llm_response.tool_calls)
            THEN /\ call_idx' = call_idx + 1
                 /\ pc' \in {"tool_start", "tool_confirmation_required", "tool_done"}
            ELSE pc' \in {"llm_start", "agent_done"}]_vars

\* A call whose argument binding raised was recorded, and the next call of
\* the same response was run after it.
C32_Witness ==
    \E i \in 1..(Len(messages) - 1) :
        /\ messages[i].role = "tool" /\ messages[i].content = RaisedResult
        /\ messages[i + 1].role = "tool" /\ messages[i + 1].content = <<"ok">>
        /\ \A j \in 1..Len(events) : events[j].type # "error"

\* C33: agent_done carries the sentinel only when the run used up its
\* iterations and the last response still asked for tools; not when the last
\* permitted iteration ended with a response without tool calls, nor when it
\* ended with an error event.
C33_SentinelOnlyAtCap ==
    (pc = "agent_done" /\ Last(events).text = Sentinel) =>
        /\ iteration = max_iterations
        /\ EventsOfType("error") = {}
        /\ \E j \in EventsOfType("llm_done") :
              events[j].iteration = max_iterations /\ events[j].calls # <<>>

\* The prompt ids the trajectory's events carry.
PromptIds == {trajectory[i].prompt_id : i \in 1..Len(trajectory)}

\* C34: in a session, as many prompt ids have been allocated as run() was
\* called, and the events of the trajectory carry as many prompt ids as
\* there were runs: every event of one run has the id allocated when the
\* run began.
C34_OnePromptIdPerRun ==
    /\ prompt_counter = runs
    /\ Cardinality(PromptIds) = runs

\* C35: every tool call with malformed arguments is repaired by itself, the
\* second such call of a response like the first: at its tool_done the
\* trajectory ends with its tool_call_sanitized event and the user_message
\* of its correction, and the ledger ends with the correction naming it.
C35_EachMalformedCallRepaired ==
    InvalidCallDone =>
        /\ Last(messages) = RetryMessage(CurrentCall(Cur))
        /\ Len(trajectory) >= 2
        /\ trajectory[Len(trajectory) - 1].event_type = "tool_call_sanitized"
        /\ Last(trajectory).event_type = "user_message"

\* The text of a file as it is stored: decoded, its tabs as they are.
StoredText(fs, resolved) == read_with_encoding_fallback(fs[resolved].content).content

\* after is before with the occurrence(s) of the old string replaced and
\* every other character, tabs included, as it was.  The replaced region is
\* the old string as given or with its tabs expanded, and likewise the new.
OnlyOccurrencesChanged(before, after, r) ==
    LET text == StoredText(before, r.resolved)
    IN \E old \in {r.args.old_string, expandtabs(r.args.old_string)},
          new \in {r.args.new_string, expandtabs(r.args.new_string)} :
          IF r.args.replace_all
          THEN StoredText(after, r.resolved) = ReplacedFrom(text, old, new, 1)
          ELSE \E k \in Occurrences(text, old) :
                   StoredText(after, r.resolved) = Splice(text, k, old, new)

\* C36: a successful edit_file changes the replaced occurrence(s) and no
\* other character of the file; a tab elsewhere in the file is still a tab.
C36_EditFrame ==
    [][(fs_result'.tool = "edit_file" /\ fs_result'.status = "ok") =>
          OnlyOccurrencesChanged(files, files', fs_result')]_vars

\* The statuses of a read_file that was refused because the path is not an
\* existing regular file of the workspace, or by the size and token guards.
RefusedRead == {"not_absolute", "outside_workspace", "not_found", "not_a_file", "too_large"}

\* C37: a read_file with no line range of an existing regular file of the
\* workspace that passes the guards succeeds, an empty file included, and
\* marks the file as read; and a file that was read is not refused by
\* edit_file as unread.
C37_EveryFileReadable ==
    /\ [][(fs_result'.tool = "read_file" /\ fs_result'.status \notin RefusedRead) =>
            /\ fs_result'.status = "ok"
            /\ has_tracker => fs_result'.resolved \in read_files']_vars
    /\ [][(fs_result'.tool = "edit_file" /\ fs_result'.resolved \in reads_ok) =>
            fs_result'.status # "not_read"]_vars

\* The lines and the exit status bash produces for the command of call i.
Produced(i) ==
    CASE bash_calls[i].command = "probe" -> [output |-> Visible(i), exit_code |-> 0]
      [] bash_calls[i].command = "printf" -> [output |-> <<"foo">>, exit_code |-> 1]
      [] bash_calls[i].command = "false" -> [output |-> <<>>, exit_code |-> 1]
      [] OTHER -> [output |-> <<>>, exit_code |-> 0]

\* C38: when no earlier command of the session timed out, a command that
\* returns without a timeout returns the lines bash printed for it, with no
\* line of the framing among them, and its exit status.
C38_OutputIsTheCommands ==
    \A i \in 1..Len(bash_calls) :
        (/\ bash_calls[i].result = "ok"
         /\ \A j \in 1..(i - 1) : bash_calls[j].result = "ok")
            => /\ bash_calls[i].output = Produced(i).output
               /\ bash_calls[i].exit_code = Produced(i).exit_code

\* C39: through the HTTP tool-execution server too, an edit_file request
\* for a file that no earlier read_file request has read is rejected and
\* leaves the files as they were.
C39_RemoteReadBeforeEdit ==
    [][(fs_result'.tool = "edit_file" /\ fs_result'.resolved \notin reads_ok) =>
          (fs_result'.status # "ok" /\ files' = files)]_vars

====
